---- MODULE Spec2Model ----
(***************************************************************************)
(* State-machine model of the snapshot_report pamphlet service:            *)
(*   - the publication recorder of src/app.py (generate_compliance_code,   *)
(*     upload_pdf_to_r2, insert_report_issue, publish_report),             *)
(*   - the audit tables report_issue / report_issue_event of the D1 store  *)
(*     and the R2 bucket, as the pages use them,                           *)
(*   - the metrics aggregator fetch_top_rows / fetch_top_rows_after_age.   *)
(* Time is counted in hours since a UTC midnight.                          *)
(***************************************************************************)
EXTENDS Integers, Sequences, FiniteSets, TLC

\* ------------------------------------------------------------------ bounds
MaxAttempts == 3     \* calls of publish_report in one behaviour
StartHour == 12      \* hour at which the behaviour starts (21:00 KST)
MaxClock == 18       \* last hour the clock reaches
TickHours == 3       \* hours the clock advances per Tick
MaxEvents == 2       \* rows the pages append to report_issue_event
MaxRows == 2         \* rows loaded into disease_year_age_sex_metrics
MaxNowRows == 2      \* length of now_rows given to pick_emerging_rows
MaxAfterRows == 3    \* length of after_rows given to pick_emerging_rows
MaxAmount == 60      \* largest amount given to the unit converters
MaxChartRows == 3    \* rows given to build_top10_combo_chart_data_uri
MaxCalls == 3        \* calls of the decorated aggregators in one behaviour
MaxMemoClock == 3    \* last half hour the cache timer reaches

\* --------------------------------------------------------------- constants
KstOffset == 9       \* ZoneInfo("Asia/Seoul") is UTC+9
PerHundredThousand == 100000   \* the scale of prevalence_per_100k
EokFactor == 100000  \* thousand won per hundred million won
ManFactor == 10      \* thousand won per ten thousand won

\* the FC sessions that may run publish_report, by fc_code
Pubs == {"FC1", "FC2"}
None == "None"
Unread == <<>>       \* now_kst before the clock is read

VARIABLES
    now,                \* wall clock, hours since a UTC midnight
    storeTz,            \* offset (hours) of the store's created_at default
    serverTz,           \* offset (hours) of the server's local time zone
    pc,                 \* pc[p]: position of publisher p in publish_report
    attempts,           \* number of publish_report calls started so far
    attempt,            \* attempt[p]: number of p's current call (0: none yet)
    now_kst,            \* now_kst[p]: <<KST date>> read at app.py:326, or <<>>
    compliance_code,    \* compliance_code[p]: local of publish_report
    pdf_r2_key,         \* pdf_r2_key[p]: local of publish_report
    pdf_filename,       \* pdf_filename[p]: local of publish_report
    err,                \* err[p]: the exception publish_report raised
    ret,                \* ret[p]: the value publish_report returned
    report_issue,       \* D1 table report_issue, rows in insertion order
    report_issue_event, \* D1 table report_issue_event, in insertion order
    r2,                 \* R2 bucket: key -> body
    put_log,            \* the put_object calls that succeeded, in call order
    page_out,           \* outcome of the last run of a page of pages/
    metrics,            \* D1 table disease_year_age_sex_metrics (set of rows)
    fetch_call,         \* arguments of the last aggregator call
    fetch_rows,         \* rows the last aggregator call returned
    main,               \* the run of the main page script (app.py:975-)
    call,               \* a helper function applied to drawn arguments
    memo,               \* st.cache_data entries of the two aggregators
    memo_clock,         \* the cache's timer, in half hours
    d1_sent,            \* statements the aggregators sent to d1_query
    fetch_seq,          \* calls of the decorated aggregators so far
    fetch_outcome       \* the last decorated call: "hit", "miss", "raised"

pubVars == <<pc, attempts, attempt, now_kst, compliance_code, pdf_r2_key, pdf_filename, err, ret>>
envVars == <<now, storeTz, serverTz>>
vars == <<now, storeTz, serverTz, pc, attempts, attempt, now_kst, compliance_code,
          pdf_r2_key, pdf_filename, err, ret, report_issue,
          report_issue_event, r2, put_log, page_out,
          metrics, fetch_call, fetch_rows, main, call,
          memo, memo_clock, d1_sent, fetch_seq, fetch_outcome>>
queryVars == <<metrics, fetch_call, fetch_rows>>
memoVars == <<memo, memo_clock, d1_sent, fetch_seq, fetch_outcome>>
restVars == <<page_out, metrics, fetch_call, fetch_rows, main, call, memoVars>>

\* ------------------------------------------------------------- time helpers
\* calendar date (day index) of instant t in a zone that is off hours ahead
DateIn(t, off) == (t + off) \div 24

\* datetime.now(ZoneInfo("Asia/Seoul")).strftime("%Y-%m-%d")
today_kst_date_str == DateIn(now, KstOffset)

\* SQL date(created_at): created_at is the store's own timestamp text
SqlDate(created_at) == created_at \div 24

\* ------------------------------------------------------ compliance code
\* f"{seq:04d}": decimal digits, left-padded with zeros to width 4
RECURSIVE Digits(_)
Digits(n) == IF n < 10 THEN <<n>> ELSE Append(Digits(n \div 10), n % 10)

Pad04d(seq) ==
    LET d == Digits(seq)
    IN  IF Len(d) >= 4 THEN d
        ELSE [i \in 1..(4 - Len(d)) |-> 0] \o d

\* the number a digit string denotes
RECURSIVE DigitsValue(_)
DigitsValue(d) ==
    IF Len(d) = 0 THEN 0
    ELSE 10 * DigitsValue(SubSeq(d, 1, Len(d) - 1)) + d[Len(d)]

\* mutant: the count also reserves the codes that other calls hold
get_today_report_issue_count_Reserving ==
    Cardinality({i \in 1..Len(report_issue) :
                    SqlDate(report_issue[i].created_at) = today_kst_date_str})
    + Cardinality({q \in DOMAIN pc : pc[q] \in {"CodeGenerated", "Uploaded"}})

\* SELECT COUNT(*) FROM report_issue WHERE date(created_at) = today_kst
get_today_report_issue_count ==
    Cardinality({i \in 1..Len(report_issue) :
                    SqlDate(report_issue[i].created_at) = today_kst_date_str})

\* f"{year}-{service_name}-v{version}-{mmdd}{seq_str}"; year and mmdd are
\* the KST date read first, service and version are fixed by publish_report
generate_compliance_code(kstDate, today_count) ==
    [date |-> kstDate, seq_str |-> Pad04d(today_count + 1)]

SeqOf(code) == DigitsValue(code.seq_str)

\* value of the locals compliance_code, pdf_r2_key, pdf_filename before
\* they are assigned (no generated code has an empty digit string)
NoCode == [date |-> 0, seq_str |-> <<>>]

\* ------------------------------------------------------------ blob upload
Filename(code) == [stem |-> code, ext |-> "pdf"]

\* f"report/{year}/{mmdd}/{filename}" with the server's local date
R2Key(localDate, code) == [date |-> localDate, filename |-> Filename(code)]

NoFile == Filename(NoCode)
NoKey == R2Key(0, NoCode)

\* -------------------------------------------------------------- errors
NoErr == [label |-> None, cause |-> None]
D1Error == [label |-> None, cause |-> "D1"]
UploadError == [label |-> "PDF R2 upload failed", cause |-> "R2"]
RecordError == [label |-> "report_issue DB write failed", cause |-> "D1"]

\* an optional argument: <<>> is Python's None, <<x>> the value x
Absent == <<>>
Given(x) == <<x>>

\* no aggregator call has been made yet
NoCall ==
    [fn |-> None, start_year |-> 0, end_year |-> 0, age_groups |-> <<>>,
     sex |-> None, sort_key |-> None, limit |-> 0,
     min_prev_100k |-> Absent, min_cpp_chewon |-> Absent]

\* ---------------------------------------------------------------- Init
\* no helper function has been applied
NoApply == [fn |-> None]

\* the main page script has not run
NotRun ==
    [pc |-> "Idle", raised |-> {}, shown |-> {},
     start_input |-> 0, end_input |-> 0, start_year |-> 0, end_year |-> 0,
     age_band |-> None, gender |-> None, sort_key |-> None,
     min_prev_100k |-> 0, min_cpp_manwon |-> 0,
     top_rows |-> <<>>, after_rows |-> <<>>, emerging_rows |-> <<>>,
     chart_data_uri |-> None, preview |-> FALSE]

\* the stores, the clock and the sessions before anything ran
InitBase ==
    /\ now = StartHour
    /\ storeTz \in {0, KstOffset}
    /\ serverTz \in {0, KstOffset}
    /\ pc = [p \in Pubs |-> "Idle"]
    /\ attempts = 0
    /\ attempt = [p \in Pubs |-> 0]
    /\ now_kst = [p \in Pubs |-> Unread]
    /\ compliance_code = [p \in Pubs |-> NoCode]
    /\ pdf_r2_key = [p \in Pubs |-> NoKey]
    /\ pdf_filename = [p \in Pubs |-> NoFile]
    /\ err = [p \in Pubs |-> NoErr]
    /\ ret = [p \in Pubs |-> NoCode]
    /\ report_issue = <<>>
    /\ report_issue_event = <<>>
    /\ r2 = <<>>
    /\ put_log = <<>>
    /\ page_out = [page |-> None, outcome |-> None]
    /\ metrics = {}
    /\ fetch_call = NoCall
    /\ fetch_rows = <<>>
    /\ memo = {}
    /\ memo_clock = 0
    /\ d1_sent = 0
    /\ fetch_seq = 0
    /\ fetch_outcome = None

Init ==
    /\ InitBase
    /\ main = NotRun
    /\ call = NoApply

\* ------------------------------------------------------------- actions
Tick ==
    /\ now + TickHours <= MaxClock
    /\ now' = now + TickHours
    /\ UNCHANGED <<storeTz, serverTz, pubVars, report_issue, report_issue_event, r2, put_log,
                   restVars>>

\* generate_compliance_code, line 326: read the KST clock
GenReadClock(p) ==
    /\ pc[p] = "Pending"
    /\ now_kst[p] = Unread
    /\ now_kst' = [now_kst EXCEPT ![p] = <<today_kst_date_str>>]
    /\ UNCHANGED <<envVars, pc, attempts, attempt, compliance_code, pdf_r2_key,
                   pdf_filename, err, ret, report_issue, report_issue_event, r2, put_log,
                   restVars>>

\* generate_compliance_code, lines 332-343: count today's records, build code
GenCode(p) ==
    /\ pc[p] = "Pending"
    /\ now_kst[p] # Unread
    /\ compliance_code' = [compliance_code EXCEPT ![p] =
            generate_compliance_code(now_kst[p][1], get_today_report_issue_count)]
    /\ pc' = [pc EXCEPT ![p] = "CodeGenerated"]
    /\ UNCHANGED <<envVars, attempts, attempt, now_kst, pdf_r2_key, pdf_filename, err,
                   ret, report_issue, report_issue_event, r2, put_log,
                   restVars>>

\* d1_query raises inside get_today_report_issue_count: nothing catches it
GenCodeFail(p) ==
    /\ pc[p] = "Pending"
    /\ now_kst[p] # Unread
    /\ pc' = [pc EXCEPT ![p] = "CodeGenFailed"]
    /\ err' = [err EXCEPT ![p] = D1Error]
    /\ UNCHANGED <<envVars, attempts, attempt, now_kst, compliance_code, pdf_r2_key,
                   pdf_filename, ret, report_issue, report_issue_event, r2, put_log,
                   restVars>>

\* r2.put_object(Key=key, Body=body): the object replaces any object at key
put_object(bucket, key, body) ==
    [k \in DOMAIN bucket \cup {key} |-> IF k = key THEN body ELSE bucket[k]]

\* the (r2_key, filename) upload_pdf_to_r2 computes for a code, lines 298-303
upload_pdf_to_r2(code) ==
    [r2_key |-> R2Key(DateIn(now, serverTz), code), filename |-> Filename(code)]

\* upload_pdf_to_r2 returns: the object is stored under the key; the PDF
\* bytes of a call are identified by the number of the call
UploadOk(p) ==
    /\ pc[p] = "CodeGenerated"
    /\ LET up == upload_pdf_to_r2(compliance_code[p])
       IN  /\ r2' = put_object(r2, up.r2_key, attempt[p])
           /\ put_log' = Append(put_log, [Key |-> up.r2_key, Body |-> attempt[p]])
           /\ pdf_r2_key' = [pdf_r2_key EXCEPT ![p] = up.r2_key]
           /\ pdf_filename' = [pdf_filename EXCEPT ![p] = up.filename]
    /\ pc' = [pc EXCEPT ![p] = "Uploaded"]
    /\ UNCHANGED <<envVars, attempts, attempt, now_kst, compliance_code, err, ret,
                   report_issue, report_issue_event,
                   restVars>>

\* mutant: the audit record is written although the upload raised
UploadFail_InsertsRecord(p) ==
    /\ pc[p] = "CodeGenerated"
    /\ pc' = [pc EXCEPT ![p] = "UploadFailed"]
    /\ err' = [err EXCEPT ![p] = UploadError]
    /\ report_issue' = Append(report_issue,
           [fc_id |-> p, attempt |-> attempt[p], pdf_r2_key |-> pdf_r2_key[p],
            pdf_filename |-> pdf_filename[p],
            compliance_code |-> compliance_code[p],
            created_at |-> now + storeTz])
    /\ UNCHANGED <<envVars, attempts, attempt, now_kst, compliance_code, pdf_r2_key,
                   pdf_filename, ret, report_issue_event, r2, put_log,
                   restVars>>

\* upload_pdf_to_r2 raises: publish_report re-raises with the upload label
UploadFail(p) ==
    /\ pc[p] = "CodeGenerated"
    /\ pc' = [pc EXCEPT ![p] = "UploadFailed"]
    /\ err' = [err EXCEPT ![p] = UploadError]
    /\ UNCHANGED <<envVars, attempts, attempt, now_kst, compliance_code, pdf_r2_key,
                   pdf_filename, ret, report_issue, report_issue_event, r2, put_log,
                   restVars>>

\* mutant: the row stores a key rebuilt at insert time instead of the key
\* upload_pdf_to_r2 returned
insert_report_issue_RebuiltKey(p) ==
    Append(report_issue,
           [fc_id |-> p,
            attempt |-> attempt[p],
            pdf_r2_key |-> R2Key(DateIn(now, serverTz), compliance_code[p]),
            pdf_filename |-> pdf_filename[p],
            compliance_code |-> compliance_code[p],
            created_at |-> now + storeTz])

\* the row INSERT INTO report_issue adds; created_at is the store's default
insert_report_issue(p) ==
    Append(report_issue,
           [fc_id |-> p,
            attempt |-> attempt[p],
            pdf_r2_key |-> pdf_r2_key[p],
            pdf_filename |-> pdf_filename[p],
            compliance_code |-> compliance_code[p],
            created_at |-> now + storeTz])

\* insert_report_issue returns: publish_report returns the code
InsertOk(p) ==
    /\ pc[p] = "Uploaded"
    /\ report_issue' = insert_report_issue(p)
    /\ ret' = [ret EXCEPT ![p] = compliance_code[p]]
    /\ pc' = [pc EXCEPT ![p] = "Recorded"]
    /\ UNCHANGED <<envVars, attempts, attempt, now_kst, compliance_code, pdf_r2_key,
                   pdf_filename, err, report_issue_event, r2, put_log,
                   restVars>>

\* mutant: the insert failure is reported as the upload failure
InsertFail_AsUploadFailed(p) ==
    /\ pc[p] = "Uploaded"
    /\ pc' = [pc EXCEPT ![p] = "UploadFailed"]
    /\ err' = [err EXCEPT ![p] = UploadError]
    /\ UNCHANGED <<envVars, attempts, attempt, now_kst, compliance_code, pdf_r2_key,
                   pdf_filename, ret, report_issue, report_issue_event, r2, put_log,
                   restVars>>

\* insert_report_issue raises: publish_report re-raises with the record label
InsertFail(p) ==
    /\ pc[p] = "Uploaded"
    /\ pc' = [pc EXCEPT ![p] = "OrphanedArtifact"]
    /\ err' = [err EXCEPT ![p] = RecordError]
    /\ UNCHANGED <<envVars, attempts, attempt, now_kst, compliance_code, pdf_r2_key,
                   pdf_filename, ret, report_issue, report_issue_event, r2, put_log,
                   restVars>>

Terminal == {"Recorded", "OrphanedArtifact", "UploadFailed", "CodeGenFailed"}

\* the publish button is pressed (app.py:1052): a new call of publish_report
Start(p) ==
    /\ pc[p] \in Terminal \cup {"Idle"}
    /\ attempts < MaxAttempts
    /\ attempts' = attempts + 1
    /\ attempt' = [attempt EXCEPT ![p] = attempts + 1]
    /\ pc' = [pc EXCEPT ![p] = "Pending"]
    /\ now_kst' = [now_kst EXCEPT ![p] = Unread]
    /\ compliance_code' = [compliance_code EXCEPT ![p] = NoCode]
    /\ pdf_r2_key' = [pdf_r2_key EXCEPT ![p] = NoKey]
    /\ pdf_filename' = [pdf_filename EXCEPT ![p] = NoFile]
    /\ err' = [err EXCEPT ![p] = NoErr]
    /\ ret' = [ret EXCEPT ![p] = NoCode]
    /\ UNCHANGED <<envVars, report_issue, report_issue_event, r2, put_log,
                   restVars>>

publish_report(p) ==
    \/ Start(p)
    \/ GenReadClock(p)
    \/ GenCode(p)
    \/ GenCodeFail(p)
    \/ UploadOk(p)
    \/ UploadFail(p)
    \/ InsertOk(p)
    \/ InsertFail(p)

Next ==
    \/ Tick
    \/ \E p \in Pubs : publish_report(p)

Spec == Init /\ [][Next]_vars

\* one statement of publish_report or of its callees, Start excluded
Step(p) ==
    \/ GenReadClock(p)
    \/ GenCode(p)
    \/ GenCodeFail(p)
    \/ UploadOk(p)
    \/ UploadFail(p)
    \/ InsertOk(p)
    \/ InsertFail(p)

\* publish_report is straight-line synchronous code whose remote calls return
\* or raise (requests timeout=30, app.py:150): a started call keeps running
FairSpec == Spec /\ \A p \in Pubs : WF_vars(Step(p))

\* a single publisher: the calls of publish_report never overlap
Publisher == "FC1"

NextSeq ==
    \/ Tick
    \/ publish_report(Publisher)

SeqSpec == Init /\ [][NextSeq]_vars

\* ------------------------------------------------------------------
\* Pages: my_reports, admin_detail, admin_dashboard
\* ------------------------------------------------------------------
\* what a bearer token carries, as far as the verifiers look at it
Tokens ==
    [sig_ok : BOOLEAN, expired : BOOLEAN, role : {"absent", "fc", "admin"},
     has_name : BOOLEAN, has_phone : BOOLEAN, email : {None, "admin@corp"},
     fc_code : {None, "FC1"}]

\* mutant: app.verify_token passing the role of the payload on
app_verify_token_WithRole(tok) ==
    IF ~tok.sig_ok \/ tok.expired \/ ~tok.has_name \/ ~tok.has_phone
    THEN [raised |-> TRUE, role |-> None, id |-> None]
    ELSE [raised |-> FALSE, role |-> tok.role, id |-> None]

\* app.verify_token: the dict it returns has no "role" and no "id" key
app_verify_token(tok) ==
    IF ~tok.sig_ok \/ tok.expired \/ ~tok.has_name \/ ~tok.has_phone
    THEN [raised |-> TRUE, role |-> None, id |-> None]
    ELSE [raised |-> FALSE, role |-> None, id |-> None]

\* utils.auth.verify_token: role defaults to "fc", admin_id is the email
auth_verify_token(tok) ==
    LET role == IF tok.role = "absent" THEN "fc" ELSE tok.role
    IN  IF \/ ~tok.sig_ok \/ tok.expired \/ ~tok.has_name
           \/ (role = "fc" /\ ~tok.has_phone)
        THEN [raised |-> TRUE, role |-> None, admin_id |-> None,
              fc_code |-> None]
        ELSE [raised |-> FALSE, role |-> role, admin_id |-> tok.email,
              fc_code |-> tok.fc_code]

\* mutant: the statement replaces the log by the new row
insert_event_Replacing(code, event_type, actor_type, actor_id) ==
    <<[compliance_code |-> code, event_type |-> event_type,
       actor_type |-> actor_type, actor_id |-> actor_id,
       created_at |-> now + storeTz]>>

\* INSERT INTO report_issue_event (compliance_code, event_type, actor_type,
\* actor_id); created_at is the store's default
insert_event(code, event_type, actor_type, actor_id) ==
    Append(report_issue_event,
           [compliance_code |-> code, event_type |-> event_type,
            actor_type |-> actor_type, actor_id |-> actor_id,
            created_at |-> now + storeTz])

\* a code no publish attempt generates, for a ?code= that has no record
UnknownCode == [date |-> 0, seq_str |-> <<9, 9, 9, 9>>]

RecordedCodes == {report_issue[i].compliance_code : i \in 1..Len(report_issue)}

\* mutant: the download is logged without the FC's code
download_and_rerun_Anonymous(fc, i) ==
    /\ i \in 1..Len(report_issue)
    /\ report_issue[i].fc_id = fc
    /\ Len(report_issue_event) < MaxEvents
    /\ report_issue_event' =
            insert_event(report_issue[i].compliance_code, "download", "fc", None)
    /\ page_out' = [page |-> "my_reports", outcome |-> "downloaded"]
    /\ UNCHANGED <<envVars, pubVars, report_issue, r2, put_log, queryVars, main, call, memoVars>>

\* mutant: the download also rewrites the downloaded record
download_and_rerun_Updating(fc, i) ==
    /\ i \in 1..Len(report_issue)
    /\ report_issue[i].fc_id = fc
    /\ Len(report_issue_event) < MaxEvents
    /\ report_issue_event' =
            insert_event(report_issue[i].compliance_code, "download", "fc", fc)
    /\ report_issue' = [report_issue EXCEPT ![i].created_at = now + storeTz + 1]
    /\ page_out' = [page |-> "my_reports", outcome |-> "downloaded"]
    /\ UNCHANGED <<envVars, pubVars, r2, put_log, queryVars, main, call, memoVars>>

\* my_reports: the download button of a listed row (rows with fc_id = the
\* FC's fc_code) runs download_and_rerun
download_and_rerun(fc, i) ==
    /\ i \in 1..Len(report_issue)
    /\ report_issue[i].fc_id = fc
    /\ Len(report_issue_event) < MaxEvents
    /\ report_issue_event' =
            insert_event(report_issue[i].compliance_code, "download", "fc", fc)
    /\ page_out' = [page |-> "my_reports", outcome |-> "downloaded"]
    /\ UNCHANGED <<envVars, pubVars, report_issue, r2, put_log, queryVars, main, call, memoVars>>

\* my_reports: authentication through utils.auth.verify_token, the FC
\* check on fc_code, then the download button of a listed row
my_reports(tok, i) ==
    LET fc == auth_verify_token(tok)
    IN  IF fc.raised \/ fc.fc_code = None
        THEN /\ page_out' = [page |-> "my_reports", outcome |->
                    IF fc.raised THEN "auth_failed" ELSE "denied"]
             /\ UNCHANGED <<envVars, pubVars, report_issue,
                            report_issue_event, r2, put_log, queryVars,
                            main, call, memoVars>>
        ELSE download_and_rerun(fc.fc_code, i)

\* the buttons of admin_detail that log an event, or no button pressed
Buttons == {None, "view", "download"}

\* admin_detail: verify_admin (through app.verify_token), then the
\* admin_view event, then the record lookup, then the pressed button
admin_detail(tok, code, button) ==
    LET user == app_verify_token(tok)
        viewed == insert_event(code, "admin_view", "admin", user.id)
    IN  /\ IF user.raised
           THEN /\ page_out' = [page |-> "admin_detail", outcome |-> "error"]
                /\ UNCHANGED report_issue_event
           ELSE IF user.role # "admin"
           THEN /\ page_out' = [page |-> "admin_detail", outcome |-> "denied"]
                /\ UNCHANGED report_issue_event
           ELSE /\ Len(report_issue_event) < MaxEvents
                /\ report_issue_event' =
                        IF code \in RecordedCodes /\ button # None
                        THEN Append(viewed,
                                [compliance_code |-> code,
                                 event_type |-> button,
                                 actor_type |-> "admin",
                                 actor_id |-> user.id,
                                 created_at |-> now + storeTz])
                        ELSE viewed
                /\ page_out' = [page |-> "admin_detail", outcome |->
                        IF code \in RecordedCodes THEN "shown" ELSE "not_found"]
        /\ UNCHANGED <<envVars, pubVars, report_issue, r2, put_log, queryVars, main, call, memoVars>>

\* admin_dashboard: authentication, then KPI / list queries and the CSV and
\* ZIP exports, all of which only SELECT and GET
admin_dashboard(tok) ==
    LET admin == auth_verify_token(tok)
    IN  /\ page_out' = [page |-> "admin_dashboard", outcome |->
                IF admin.raised THEN "auth_failed"
                ELSE IF admin.role # "admin" THEN "denied"
                ELSE "listed"]
        /\ UNCHANGED <<envVars, pubVars, report_issue, report_issue_event,
                       r2, put_log, queryVars, main, call, memoVars>>

\* the tokens the pages are opened with: the gateway's, with name and email
PageTokens == {tok \in Tokens : tok.has_name /\ tok.email # None}

NextPages ==
    \/ publish_report(Publisher)
    \/ \E tok \in PageTokens, i \in 1..MaxAttempts : my_reports(tok, i)
    \/ \E tok \in PageTokens, code \in RecordedCodes \cup {UnknownCode},
          button \in Buttons :
            admin_detail(tok, code, button)
    \/ \E tok \in PageTokens : admin_dashboard(tok)

\* the pages and one publishing FC over one store, at a fixed hour
PageSpec == Init /\ [][NextPages]_vars

\* the access decision of admin_dashboard for a token
dashboard_auth(tok) ==
    LET admin == auth_verify_token(tok)
    IN  IF admin.raised THEN "auth_failed"
        ELSE IF admin.role # "admin" THEN "denied"
        ELSE "admitted"

\* the access decision of admin_detail.verify_admin for a token
verify_admin(tok) ==
    LET user == app_verify_token(tok)
    IN  IF user.raised THEN "error"
        ELSE IF user.role # "admin" THEN "denied"
        ELSE "admitted"

AuthInit ==
    /\ InitBase /\ storeTz = 0 /\ serverTz = 0
    /\ main = NotRun
    /\ \E tok \in Tokens :
            call = [fn |-> "admin_auth", token |-> tok,
                    dashboard |-> None, detail |-> None]

\* the token is presented to admin_dashboard
ApplyDashboardAuth ==
    /\ call.fn = "admin_auth" /\ call.dashboard = None
    /\ call' = [call EXCEPT !.dashboard = dashboard_auth(call.token)]
    /\ UNCHANGED <<envVars, pubVars, report_issue, report_issue_event,
                   r2, put_log, page_out, queryVars, main, memoVars>>

\* the token is presented to admin_detail
ApplyDetailAuth ==
    /\ call.fn = "admin_auth" /\ call.detail = None
    /\ call' = [call EXCEPT !.detail = verify_admin(call.token)]
    /\ UNCHANGED <<envVars, pubVars, report_issue, report_issue_event,
                   r2, put_log, page_out, queryVars, main, memoVars>>

\* one token presented to both admin pages
AuthSpec == AuthInit /\ [][ApplyDashboardAuth \/ ApplyDetailAuth]_vars

\* ==================================================================
\* Aggregators over disease_year_age_sex_metrics (app.py)
\* ==================================================================
Codes == {"A", "B", "C"}

\* disease.disease_name_ko per code: a name, a blank name, or no row
disease == [c \in Codes |->
    IF c = "A" THEN "Diabetes" ELSE IF c = "B" THEN "  " ELSE None]

\* COALESCE(NULLIF(TRIM(d.disease_name_ko), ''), m.disease_code)
disease_name_ko(code) ==
    LET trimmed == IF disease[code] \in {"", " ", "  "} THEN ""
                   ELSE disease[code]
    IN  IF trimmed = None \/ trimmed = "" THEN code ELSE trimmed

\* (year, age_group, sex) cells a stored row may carry
MetricKeys ==
    {<<2023, "40_49", "M">>, <<2024, "40_49", "M">>,
     <<2024, "50_59", "M">>, <<2024, "40_49", "F">>}

\* (total_cost, patient_cnt, population) a stored row may carry
MetricValues ==
    {<<3000, 1, 1000>>, <<1000, 2, 1000>>, <<4000, 3, 2000>>, <<500, 0, 0>>}

RowUniverse ==
    {[disease_code |-> c, year |-> k[1], age_group |-> k[2], sex |-> k[3],
      total_cost |-> v[1], patient_cnt |-> v[2], population |-> v[3]] :
        c \in Codes, k \in MetricKeys, v \in MetricValues}

\* the table is filled before the page queries it
LoadMetric(m) ==
    /\ fetch_call = NoCall
    /\ Cardinality(metrics) < MaxRows
    /\ m \notin metrics
    /\ metrics' = metrics \cup {m}
    /\ UNCHANGED <<envVars, pubVars, report_issue, report_issue_event,
                   r2, put_log, page_out, fetch_call, fetch_rows, main, call, memoVars>>

RECURSIVE SUM(_, _)
SUM(S, column) ==
    IF S = {} THEN 0
    ELSE LET m == CHOOSE x \in S : TRUE
         IN  m[column] + SUM(S \ {m}, column)

\* an SQL REAL kept as an exact fraction, or NULL
Null == [null |-> TRUE, num |-> 0, den |-> 1]
Real(n, d) == [null |-> FALSE, num |-> n, den |-> d]

\* CAST(n AS REAL) / NULLIF(d, 0)
DivNullIf(n, d) == IF d = 0 THEN Null ELSE Real(n, d)

\* x >= t in SQL: NULL >= t is not true
AtLeast(x, t) == ~x.null /\ x.num >= t * x.den

ValidSortKeys == {"total_cost", "prevalence_per_100k", "cost_per_patient"}

\* an unrecognized sort_key falling back to prevalence_per_100k
order_by_PrevalenceFallback(sort_key) ==
    IF sort_key \notin ValidSortKeys THEN "prevalence_per_100k" ELSE sort_key

\* sort_key falls back to total_cost when it is not one of the three
order_by(sort_key) ==
    IF sort_key \notin ValidSortKeys THEN "total_cost" ELSE sort_key

\* a threshold is bound into HAVING only when given and positive
Active(threshold) == threshold # Absent /\ threshold[1] > 0

\* the agg CTE before HAVING: one row per disease_code in scope
agg(start_year, end_year, age_groups, sex) ==
    LET scope == {m \in metrics :
                    /\ m.year >= start_year /\ m.year <= end_year
                    /\ m.age_group \in age_groups
                    /\ m.sex = sex}
        group(c) == {m \in scope : m.disease_code = c}
    IN  {[disease_code |-> c,
          disease_name_ko |-> disease_name_ko(c),
          total_cost |-> SUM(group(c), "total_cost"),
          patient_cnt |-> SUM(group(c), "patient_cnt"),
          population |-> SUM(group(c), "population"),
          prevalence_per_100k |->
              DivNullIf(SUM(group(c), "patient_cnt") * PerHundredThousand,
                        SUM(group(c), "population")),
          cost_per_patient |->
              DivNullIf(SUM(group(c), "total_cost"),
                        SUM(group(c), "patient_cnt"))] :
            c \in {m.disease_code : m \in scope}}

\* HAVING 1=1 with both conditions joined by OR instead of AND
having_sql_Either(g, min_prev_100k, min_cpp_chewon) ==
    IF Active(min_prev_100k) /\ Active(min_cpp_chewon)
    THEN \/ AtLeast(g.prevalence_per_100k, min_prev_100k[1])
         \/ AtLeast(g.cost_per_patient, min_cpp_chewon[1])
    ELSE /\ Active(min_prev_100k) =>
                AtLeast(g.prevalence_per_100k, min_prev_100k[1])
         /\ Active(min_cpp_chewon) =>
                AtLeast(g.cost_per_patient, min_cpp_chewon[1])

\* HAVING 1=1 [AND prevalence >= ?] [AND cost per patient >= ?]
having_sql(g, min_prev_100k, min_cpp_chewon) ==
    /\ Active(min_prev_100k) =>
            AtLeast(g.prevalence_per_100k, min_prev_100k[1])
    /\ Active(min_cpp_chewon) =>
            AtLeast(g.cost_per_patient, min_cpp_chewon[1])

\* the value ORDER BY sorts on
SortValue(g, column) ==
    IF column = "total_cost" THEN Real(g.total_cost, 1) ELSE g[column]

\* x may stand before y under ORDER BY ... DESC (NULLs sort last)
Desc(x, y) == y.null \/ (~x.null /\ x.num * y.den >= y.num * x.den)

\* every order ORDER BY column DESC may give the rows of G (ties are free)
OrderByDesc(G, column) ==
    {s \in [1..Cardinality(G) -> G] :
        /\ \A i, j \in 1..Cardinality(G) : i # j => s[i] # s[j]
        /\ \A i, j \in 1..Cardinality(G) :
                i < j => Desc(SortValue(s[i], column), SortValue(s[j], column))}

\* LIMIT n
Limit(s, n) == SubSeq(s, 1, IF Len(s) < n THEN Len(s) ELSE n)

\* the statement both aggregators send: the results d1_query may return
select_agg(start_year, end_year, age_groups, sex, sort_key, limit, min_prev_100k, min_cpp_chewon) ==
    LET kept == {g \in agg(start_year, end_year, age_groups, sex) :
                    having_sql(g, min_prev_100k, min_cpp_chewon)}
    IN  {Limit(s, limit) : s \in OrderByDesc(kept, order_by(sort_key))}

fetch_top_rows(start_year, end_year, age_group, sex, sort_key, limit, min_prev_100k, min_cpp_chewon) ==
    select_agg(start_year, end_year, {age_group}, sex, sort_key, limit,
               min_prev_100k, min_cpp_chewon)

\* the after-age aggregator reading only the first listed age group
fetch_top_rows_after_age_FirstOnly(start_year, end_year, after_age_groups, sex, sort_key, limit, min_prev_100k, min_cpp_chewon) ==
    IF after_age_groups = <<>> THEN {<<>>}
    ELSE select_agg(start_year, end_year, {after_age_groups[1]},
                    sex, sort_key, limit, min_prev_100k, min_cpp_chewon)

fetch_top_rows_after_age(start_year, end_year, after_age_groups, sex, sort_key, limit, min_prev_100k, min_cpp_chewon) ==
    IF after_age_groups = <<>> THEN {<<>>}
    ELSE select_agg(start_year, end_year,
                    {after_age_groups[i] : i \in 1..Len(after_age_groups)},
                    sex, sort_key, limit, min_prev_100k, min_cpp_chewon)

\* argument values the calls are drawn from
\* years a year widget is set to
YearInputs == {2023, 2024}
YearRanges == {<<2023, 2024>>, <<2024, 2024>>, <<2024, 2023>>}
AgeGroups == {"40_49", "50_59"}
AfterAgeLists == {<<>>, <<"50_59">>, <<"40_49", "50_59">>}
Sexes == {"M", "F"}
SortKeys == ValidSortKeys \cup {"disease_name_ko"}
Limits == {1, 15}
MinPrevs == {Absent, Given(0), Given(150)}
MinCpps == {Absent, Given(-10), Given(1000)}

CallTopRows ==
    /\ fetch_call = NoCall
    /\ \E y \in YearRanges, g \in AgeGroups, sex \in Sexes, k \in SortKeys,
          n \in Limits, mp \in MinPrevs, mc \in MinCpps :
         \E rows \in fetch_top_rows(y[1], y[2], g, sex, k, n, mp, mc) :
            /\ fetch_call' =
                 [fn |-> "fetch_top_rows", start_year |-> y[1],
                  end_year |-> y[2], age_groups |-> <<g>>, sex |-> sex,
                  sort_key |-> k, limit |-> n,
                  min_prev_100k |-> mp, min_cpp_chewon |-> mc]
            /\ fetch_rows' = rows
    /\ UNCHANGED <<envVars, pubVars, report_issue, report_issue_event,
                   r2, put_log, page_out, metrics, main, call, memoVars>>

CallTopRowsAfterAge ==
    /\ fetch_call = NoCall
    /\ \E y \in YearRanges, gs \in AfterAgeLists, sex \in Sexes,
          k \in SortKeys, n \in Limits, mp \in MinPrevs, mc \in MinCpps :
         \E rows \in fetch_top_rows_after_age(y[1], y[2], gs, sex, k, n,
                                              mp, mc) :
            /\ fetch_call' =
                 [fn |-> "fetch_top_rows_after_age", start_year |-> y[1],
                  end_year |-> y[2], age_groups |-> gs, sex |-> sex,
                  sort_key |-> k, limit |-> n,
                  min_prev_100k |-> mp, min_cpp_chewon |-> mc]
            /\ fetch_rows' = rows
    /\ UNCHANGED <<envVars, pubVars, report_issue, report_issue_event,
                   r2, put_log, page_out, metrics, main, call, memoVars>>

\* the script reruns: the previous call's rows are dropped
Rerun ==
    /\ fetch_call # NoCall
    /\ fetch_call' = NoCall
    /\ fetch_rows' = <<>>
    /\ UNCHANGED <<envVars, pubVars, report_issue, report_issue_event,
                   r2, put_log, page_out, metrics, main, call, memoVars>>

NextQuery ==
    \/ \E m \in RowUniverse : LoadMetric(m)
    \/ CallTopRows
    \/ CallTopRowsAfterAge
    \/ Rerun

\* the aggregators read neither the clock nor created_at: one zone suffices
QueryInit == Init /\ storeTz = 0 /\ serverTz = 0

\* a loaded metrics table read by the two aggregators
QuerySpec == QueryInit /\ [][NextQuery]_vars

\* ==================================================================
\* Emerging-disease selector (app.py:784-787)
\* ==================================================================
\* a str is a sequence of characters; " " is the only whitespace drawn
Whitespace == {" "}

RECURSIVE lstrip(_)
lstrip(s) ==
    IF s # <<>> /\ Head(s) \in Whitespace THEN lstrip(Tail(s)) ELSE s

RECURSIVE rstrip(_)
rstrip(s) ==
    IF s # <<>> /\ s[Len(s)] \in Whitespace
    THEN rstrip(SubSeq(s, 1, Len(s) - 1)) ELSE s

\* str.strip()
strip(s) == rstrip(lstrip(s))

\* (r.get("disease_code") or "").strip()
CodeKey(r) == strip(IF r.disease_code = Absent THEN <<>> ELSE r.disease_code[1])

\* s[:n] for n >= 0
Slice(s, n) == SubSeq(s, 1, IF Len(s) < n THEN Len(s) ELSE n)

\* the list comprehension over after_rows, in list order
RECURSIVE Comprehend(_, _)
Comprehend(rows, now_codes) ==
    IF rows = <<>> THEN <<>>
    ELSE IF CodeKey(Head(rows)) \notin now_codes
         THEN <<Head(rows)>> \o Comprehend(Tail(rows), now_codes)
         ELSE Comprehend(Tail(rows), now_codes)

\* the selector comparing the codes as they are, without strip()
pick_emerging_rows_NoStrip(now_rows, after_rows, limit) ==
    LET now_codes == {now_rows[i].disease_code : i \in 1..Len(now_rows)}
        keep(r) == r.disease_code \notin now_codes
    IN  Slice(SelectSeq(after_rows, keep), limit)

pick_emerging_rows(now_rows, after_rows, limit) ==
    LET now_codes == {CodeKey(now_rows[i]) : i \in 1..Len(now_rows)}
        emerging == Comprehend(after_rows, now_codes)
    IN  Slice(emerging, limit)

\* disease_code values of the drawn rows: None, or a str
DrawnCodes ==
    {Absent, Given(<<"A">>), Given(<<"B">>), Given(<<" ", "B", " ">>),
     Given(<<"C">>), Given(<<"D">>)}
DrawnRows == {[disease_code |-> c] : c \in DrawnCodes}
DrawnLimits == {0, 1, 2, 5}

SeqsUpTo(S, n) == UNION {[1..k -> S] : k \in 0..n}

PickInit ==
    /\ InitBase /\ storeTz = 0 /\ serverTz = 0
    /\ main = NotRun
    /\ \E now_rows \in SeqsUpTo(DrawnRows, MaxNowRows),
          after_rows \in SeqsUpTo(DrawnRows, MaxAfterRows),
          limit \in DrawnLimits :
            call = [fn |-> "pick_emerging_rows", done |-> FALSE,
                    now_rows |-> now_rows, after_rows |-> after_rows,
                    limit |-> limit, ret |-> <<>>]

ApplyPickEmergingRows ==
    /\ call.fn = "pick_emerging_rows" /\ ~call.done
    /\ call' = [call EXCEPT !.done = TRUE,
                    !.ret = pick_emerging_rows(call.now_rows,
                                               call.after_rows, call.limit)]
    /\ UNCHANGED <<envVars, pubVars, report_issue, report_issue_event,
                   r2, put_log, page_out, queryVars, main, memoVars>>

\* pick_emerging_rows applied once to drawn row lists
PickSpec == PickInit /\ [][ApplyPickEmergingRows]_vars
\* ==================================================================
\* Units (app.py:264-276); a float is kept as an exact fraction
\* ==================================================================
\* float(x or 0) of a number or None
FloatOr0(x) == IF x.null THEN Real(0, 1) ELSE x

\* int(x): truncation toward zero (denominators are positive)
int(x) == IF x.num >= 0 THEN x.num \div x.den ELSE -((-x.num) \div x.den)

\* thousand won -> hundred million won
chewon_to_eok(x) == Real(FloatOr0(x).num, FloatOr0(x).den * EokFactor)

\* thousand won -> ten thousand won
chewon_to_man(x) == Real(FloatOr0(x).num, FloatOr0(x).den * ManFactor)

\* ten thousand won -> thousand won
manwon_to_chewon(m) == int(m) * ManFactor

RECURSIVE Gcd(_, _)
Gcd(a, b) == IF b = 0 THEN a ELSE Gcd(b, a % b)

\* a fraction n / d >= 0 in lowest terms
Lowest(x) ==
    [num |-> x.num \div Gcd(x.num, x.den), den |-> x.den \div Gcd(x.num, x.den)]

\* equality of two floats
Eq(x, y) == Lowest(x) = Lowest(y)

ConvInit ==
    /\ InitBase /\ storeTz = 0 /\ serverTz = 0
    /\ main = NotRun
    /\ \E fn \in {"chewon_man_chewon", "manwon_chewon_man"},
          x \in 0..MaxAmount :
            call = [fn |-> fn, done |-> FALSE, x |-> x, ret |-> Real(0, 1)]

\* manwon_to_chewon(chewon_to_man(x))
ApplyChewonRoundTrip ==
    /\ call.fn = "chewon_man_chewon" /\ ~call.done
    /\ call' = [call EXCEPT !.done = TRUE,
            !.ret = Real(manwon_to_chewon(chewon_to_man(Real(call.x, 1))), 1)]
    /\ UNCHANGED <<envVars, pubVars, report_issue, report_issue_event,
                   r2, put_log, page_out, queryVars, main, memoVars>>

\* chewon_to_man(manwon_to_chewon(m))
ApplyManwonRoundTrip ==
    /\ call.fn = "manwon_chewon_man" /\ ~call.done
    /\ call' = [call EXCEPT !.done = TRUE,
            !.ret = chewon_to_man(Real(manwon_to_chewon(Real(call.x, 1)), 1))]
    /\ UNCHANGED <<envVars, pubVars, report_issue, report_issue_event,
                   r2, put_log, page_out, queryVars, main, memoVars>>

\* the two unit converters composed both ways on drawn amounts
ConvSpec == ConvInit /\ [][ApplyChewonRoundTrip \/ ApplyManwonRoundTrip]_vars

\* the three converters by name
Converters == {"chewon_to_eok", "chewon_to_man", "manwon_to_chewon"}

\* the arguments drawn: None, whole and half amounts of either sign
DrawnAmounts ==
    {Null} \cup {Real(n, d) : n \in (-MaxAmount)..MaxAmount, d \in {1, 2}}

\* the exception the call raises, or None: int(None) is a TypeError,
\* float(x or 0) takes None as 0
Raised(fn, x) ==
    IF fn = "manwon_to_chewon" /\ x.null THEN "TypeError" ELSE None

\* the value the call returns when it does not raise
Returns(fn, x) ==
    IF fn = "chewon_to_eok" THEN chewon_to_eok(x)
    ELSE IF fn = "chewon_to_man" THEN chewon_to_man(x)
    ELSE Real(manwon_to_chewon(x), 1)

TotalInit ==
    /\ InitBase /\ storeTz = 0 /\ serverTz = 0
    /\ main = NotRun
    /\ \E fn \in Converters, x \in DrawnAmounts :
            call = [fn |-> fn, done |-> FALSE, x |-> x, raised |-> None,
                    ret |-> Null]

\* one converter applied to the drawn argument
ApplyConverter ==
    /\ call.fn \in Converters /\ ~call.done
    /\ call' = [call EXCEPT !.done = TRUE,
                    !.raised = Raised(call.fn, call.x),
                    !.ret = IF Raised(call.fn, call.x) = None
                            THEN Returns(call.fn, call.x) ELSE Null]
    /\ UNCHANGED <<envVars, pubVars, report_issue, report_issue_event,
                   r2, put_log, page_out, queryVars, main, memoVars>>

\* each unit converter applied once to a drawn number or None
TotalSpec == TotalInit /\ [][ApplyConverter]_vars

\* ==================================================================
\* Chart composer (app.py:416-583); the figure is kept as the data drawn
\* ==================================================================
truncate_korean(text, max_len) ==
    IF text = <<>> THEN text
    ELSE IF Len(text) <= max_len THEN text
         ELSE SubSeq(text, 1, max_len) \o <<".", ".", ".">>

\* the returned "" (no chart)
NoChart == [drawn |-> FALSE]

\* years = max(1, end_year - start_year) without the + 1
years_NoPlusOne(start_year, end_year) ==
    IF end_year - start_year < 1 THEN 1 ELSE end_year - start_year

\* years = max(1, int(end_year) - int(start_year) + 1)
years(start_year, end_year) ==
    IF end_year - start_year + 1 < 1 THEN 1 ELSE end_year - start_year + 1

\* labels = labels[::-1] left out: the lists are drawn in input order
Reversed_Kept(s) == s

\* s[::-1]
Reversed(s) == [i \in 1..Len(s) |-> s[Len(s) + 1 - i]]

\* the assignment with the prevalence basis drawing prevalence on the top
\* axis too
SeriesFor_PrevalenceTwice(basis) ==
    IF basis = "total_cost"
    THEN [bar |-> "cost_avg_eok", top |-> "prev_100k", bottom |-> "cpp_man"]
    ELSE IF basis = "prevalence_per_100k"
    THEN [bar |-> "prev_100k", top |-> "prev_100k", bottom |-> "cpp_man"]
    ELSE [bar |-> "cpp_man", top |-> "prev_100k", bottom |-> "cost_avg_eok"]

\* bar_vals, aux1 (top) and aux2 (bottom) per basis
SeriesFor(basis) ==
    IF basis = "total_cost"
    THEN [bar |-> "cost_avg_eok", top |-> "prev_100k", bottom |-> "cpp_man"]
    ELSE IF basis = "prevalence_per_100k"
    THEN [bar |-> "prev_100k", top |-> "cost_avg_eok", bottom |-> "cpp_man"]
    ELSE [bar |-> "cpp_man", top |-> "prev_100k", bottom |-> "cost_avg_eok"]

\* the unit and axis label written with each list
UnitOf == [cost_avg_eok |-> "eok", prev_100k |-> "/100k", cpp_man |-> "man"]
LabelOf == [cost_avg_eok |-> "annual total cost", prev_100k |-> "prevalence",
            cpp_man |-> "per patient"]

build_top10_combo_chart_data_uri(rows, basis, start_year, end_year) ==
    IF rows = <<>> THEN NoChart
    ELSE
    LET n == Len(rows)
        code(r) == CodeKey(r)
        name_raw(r) ==
            LET name == strip(IF r.disease_name_ko = Absent THEN <<>>
                              ELSE r.disease_name_ko[1])
            IN  IF name # <<>> THEN name
                ELSE IF code(r) # <<>> THEN code(r)
                ELSE <<"d", "i", "s", "e", "a", "s", "e">>
        label(r) == [name |-> truncate_korean(name_raw(r), 15),
                     code |-> code(r)]
        total_cost_chewon(r) == FloatOr0(r.total_cost)
        lists ==
            [labels |-> Reversed([i \in 1..n |-> label(rows[i])]),
             cost_avg_eok |-> Reversed([i \in 1..n |->
                chewon_to_eok(Real(total_cost_chewon(rows[i]).num,
                                   total_cost_chewon(rows[i]).den
                                        * years(start_year, end_year)))]),
             prev_100k |-> Reversed([i \in 1..n |->
                FloatOr0(rows[i].prevalence_per_100k)]),
             cpp_man |-> Reversed([i \in 1..n |->
                chewon_to_man(FloatOr0(rows[i].cost_per_patient))])]
        s == SeriesFor(basis)
    IN  [drawn |-> TRUE,
         labels |-> lists.labels,
         bar_vals |-> lists[s.bar], main_unit |-> UnitOf[s.bar],
         top_vals |-> lists[s.top], top_unit |-> UnitOf[s.top],
         top_label |-> LabelOf[s.top],
         bot_vals |-> lists[s.bottom], bot_unit |-> UnitOf[s.bottom],
         bot_label |-> LabelOf[s.bottom]]

\* rows handed to the chart: the row of the worked example, a row with a
\* padded code, no name and NULL metrics, and a row with a 16-letter name
DrawnChartRows ==
    {[disease_code |-> Given(<<"A">>),
      disease_name_ko |-> Given(<<"D", "M">>),
      total_cost |-> Real(1000000, 1),
      prevalence_per_100k |-> Real(500 * PerHundredThousand, 100000),
      cost_per_patient |-> Real(1000000, 500)],
     [disease_code |-> Given(<<" ", "B", " ">>),
      disease_name_ko |-> Absent,
      total_cost |-> Real(300000, 1),
      prevalence_per_100k |-> Null,
      cost_per_patient |-> Null],
     [disease_code |-> Given(<<"C">>),
      disease_name_ko |-> Given(<<"a", "b", "c", "d", "e", "f", "g", "h",
                                  "i", "j", "k", "l", "m", "n", "o", "p">>),
      total_cost |-> Null,
      prevalence_per_100k |-> Real(7, 1),
      cost_per_patient |-> Real(45, 1)]}

Bases == ValidSortKeys \cup {"disease_name_ko"}

ChartInit ==
    /\ InitBase /\ storeTz = 0 /\ serverTz = 0
    /\ main = NotRun
    /\ \E rows \in SeqsUpTo(DrawnChartRows, MaxChartRows),
          basis \in Bases, y \in YearRanges :
            call = [fn |-> "build_top10_combo_chart_data_uri",
                    done |-> FALSE, rows |-> rows, basis |-> basis,
                    start_year |-> y[1], end_year |-> y[2], ret |-> NoChart]

ApplyChart ==
    /\ call.fn = "build_top10_combo_chart_data_uri" /\ ~call.done
    /\ call' = [call EXCEPT !.done = TRUE,
            !.ret = build_top10_combo_chart_data_uri(
                        call.rows, call.basis, call.start_year, call.end_year)]
    /\ UNCHANGED <<envVars, pubVars, report_issue, report_issue_event,
                   r2, put_log, page_out, queryVars, main, memoVars>>

\* build_top10_combo_chart_data_uri applied once to drawn rows
ChartSpec == ChartInit /\ [][ApplyChart]_vars

\* ==================================================================
\* The main page script (app.py:975-1347), one run, no button pressed
\* ==================================================================
\* the selectbox values "30대", "40대" and "남성", "여성"
AgeBands == {"30s", "40s"}
Genders == {"male", "female"}

AGE_GROUP_MAP == [b \in AgeBands |-> IF b = "30s" THEN "30_39" ELSE "40_49"]

AFTER_AGE_GROUPS ==
    [b \in AgeBands |->
        IF b = "30s"
        THEN <<"40_49", "50_59", "60_69", "70_79", "80_plus">>
        ELSE <<"50_59", "60_69", "70_79", "80_plus">>]

\* SELECT MIN(year), MAX(year); (2010, 2024) stand in for NULL
fetch_year_range ==
    LET ys == {m.year : m \in metrics}
    IN  IF ys = {} THEN <<2010, 2024>>
        ELSE <<CHOOSE y \in ys : \A z \in ys : y <= z,
               CHOOSE y \in ys : \A z \in ys : y >= z>>

\* the script starts with a verified token
Begin ==
    /\ main.pc = "Idle"
    /\ main' = [NotRun EXCEPT !.pc = "Diagnostics"]
    /\ UNCHANGED <<envVars, pubVars, report_issue, report_issue_event,
                   r2, put_log, page_out, queryVars, call, memoVars>>

\* app.py:1001-1003: two remote queries written out, outside any try
Diagnostics ==
    /\ main.pc = "Diagnostics"
    /\ \/ main' = [main EXCEPT !.pc = "YearRange"]
       \/ main' = [main EXCEPT !.pc = "Crashed",
                               !.raised = @ \cup {"diagnostics"}]
    /\ UNCHANGED <<envVars, pubVars, report_issue, report_issue_event,
                   r2, put_log, page_out, queryVars, call, memoVars>>

\* app.py:1027: fetch_year_range(), outside any try
YearRange ==
    /\ main.pc = "YearRange"
    /\ \/ main' = [main EXCEPT !.pc = "Inputs"]
       \/ main' = [main EXCEPT !.pc = "Crashed",
                               !.raised = @ \cup {"fetch_year_range"}]
    /\ UNCHANGED <<envVars, pubVars, report_issue, report_issue_event,
                   r2, put_log, page_out, queryVars, call, memoVars>>

\* the widgets that corrected the year inputs without swapping them
Inputs_NoSwap ==
    /\ main.pc = "Inputs"
    /\ \E sy, ey \in fetch_year_range[1]..fetch_year_range[2],
          band \in AgeBands, gender \in Genders, key \in ValidSortKeys,
          prev \in {0, 150}, manwon \in {0, 100} :
            /\ sy \in YearInputs /\ ey \in YearInputs
            /\ main' = [main EXCEPT
                    !.pc = "TopRows",
                    !.start_input = sy, !.end_input = ey,
                    !.start_year = sy, !.end_year = ey,
                    !.shown = IF sy > ey THEN @ \cup {"years corrected"}
                              ELSE @,
                    !.age_band = band, !.gender = gender, !.sort_key = key,
                    !.min_prev_100k = prev, !.min_cpp_manwon = manwon]
    /\ UNCHANGED <<envVars, pubVars, report_issue, report_issue_event,
                   r2, put_log, page_out, queryVars, call, memoVars>>

\* app.py:1009-1050: the widgets; start_year and end_year are swapped when
\* they come in the wrong order
Inputs ==
    /\ main.pc = "Inputs"
    /\ \E sy, ey \in fetch_year_range[1]..fetch_year_range[2],
          band \in AgeBands, gender \in Genders, key \in ValidSortKeys,
          prev \in {0, 150}, manwon \in {0, 100} :
            /\ sy \in YearInputs /\ ey \in YearInputs
            /\ main' = [main EXCEPT
                    !.pc = "TopRows",
                    !.start_input = sy, !.end_input = ey,
                    !.start_year = IF sy > ey THEN ey ELSE sy,
                    !.end_year = IF sy > ey THEN sy ELSE ey,
                    !.shown = IF sy > ey THEN @ \cup {"years corrected"}
                              ELSE @,
                    !.age_band = band, !.gender = gender, !.sort_key = key,
                    !.min_prev_100k = prev, !.min_cpp_manwon = manwon]
    /\ UNCHANGED <<envVars, pubVars, report_issue, report_issue_event,
                   r2, put_log, page_out, queryVars, call, memoVars>>

\* the arguments the script passes to both aggregators
PageCall(fn, age_groups) ==
    [fn |-> fn, start_year |-> main.start_year, end_year |-> main.end_year,
     age_groups |-> age_groups,
     sex |-> IF main.gender = "male" THEN "M" ELSE "F",
     sort_key |-> main.sort_key, limit |-> 15,
     min_prev_100k |-> Given(main.min_prev_100k),
     min_cpp_chewon |->
        Given(manwon_to_chewon(Real(main.min_cpp_manwon, 1)))]

\* build_top10_combo_chart_data_uri: "" for no rows, else an image
ChartOf(rows) == IF rows = <<>> THEN "" ELSE "image"

\* app.py:1084-1127: the current-band query in try/except, chart, table
TopRows ==
    /\ main.pc = "TopRows"
    /\ LET c == PageCall("fetch_top_rows", <<AGE_GROUP_MAP[main.age_band]>>)
       IN  \/ \E rows \in fetch_top_rows(c.start_year, c.end_year,
                            c.age_groups[1], c.sex, c.sort_key, c.limit,
                            c.min_prev_100k, c.min_cpp_chewon) :
                /\ fetch_call' = c
                /\ fetch_rows' = rows
                /\ main' = [main EXCEPT
                        !.pc = "AfterRows", !.top_rows = rows,
                        !.chart_data_uri = ChartOf(rows),
                        !.shown = IF rows = <<>>
                                  THEN @ \cup {"no chart data"} ELSE @]
           \/ /\ UNCHANGED <<fetch_call, fetch_rows>>
              /\ main' = [main EXCEPT
                        !.pc = "AfterRows", !.top_rows = <<>>,
                        !.chart_data_uri = ChartOf(<<>>),
                        !.raised = @ \cup {"fetch_top_rows"},
                        !.shown = @ \cup {"D1 stats query failed",
                                          "no chart data"}]
    /\ UNCHANGED <<envVars, pubVars, report_issue, report_issue_event,
                   r2, put_log, page_out, metrics, call, memoVars>>

\* app.py:1130-1177: the later-bands query in try/except, chart, table
AfterRows ==
    /\ main.pc = "AfterRows"
    /\ LET c == PageCall("fetch_top_rows_after_age",
                         AFTER_AGE_GROUPS[main.age_band])
           warn(rows) == IF rows = <<>> /\ c.age_groups # <<>>
                         THEN {"no later-band data"} ELSE {}
       IN  \/ /\ c.age_groups = <<>>
              /\ UNCHANGED <<fetch_call, fetch_rows>>
              /\ main' = [main EXCEPT
                        !.pc = "Emerging", !.after_rows = <<>>,
                        !.shown = @ \cup {"no later bands"}]
           \/ /\ c.age_groups # <<>>
              /\ \E rows \in fetch_top_rows_after_age(c.start_year,
                            c.end_year, c.age_groups, c.sex, c.sort_key,
                            c.limit, c.min_prev_100k, c.min_cpp_chewon) :
                    /\ fetch_call' = c
                    /\ fetch_rows' = rows
                    /\ main' = [main EXCEPT
                            !.pc = "Emerging", !.after_rows = rows,
                            !.shown = @ \cup warn(rows)]
           \/ /\ c.age_groups # <<>>
              /\ UNCHANGED <<fetch_call, fetch_rows>>
              /\ main' = [main EXCEPT
                        !.pc = "Emerging", !.after_rows = <<>>,
                        !.raised = @ \cup {"fetch_top_rows_after_age"},
                        !.shown = @ \cup {"D1 later-band query failed"}
                                    \cup warn(<<>>)]
    /\ UNCHANGED <<envVars, pubVars, report_issue, report_issue_event,
                   r2, put_log, page_out, metrics, call, memoVars>>

\* the characters of the stored disease codes
CodeChars == [c \in Codes |-> <<c>>]

\* app.py:1182-1204: the emerging rows and their table
Emerging ==
    /\ main.pc = "Emerging"
    /\ LET keyed(rows) ==
              [i \in 1..Len(rows) |->
                  [disease_code |-> Given(CodeChars[rows[i].disease_code]),
                   row |-> rows[i]]]
           picked == pick_emerging_rows(keyed(main.top_rows),
                                        keyed(main.after_rows), 5)
       IN  main' = [main EXCEPT
                !.pc = "Preview",
                !.emerging_rows = [i \in 1..Len(picked) |-> picked[i].row],
                !.shown = IF picked = <<>> THEN @ \cup {"no emerging rows"}
                          ELSE @]
    /\ UNCHANGED <<envVars, pubVars, report_issue, report_issue_event,
                   r2, put_log, page_out, queryVars, call, memoVars>>

\* app.py:1206-1330: the context and the HTML preview
Preview ==
    /\ main.pc = "Preview"
    /\ main' = [main EXCEPT !.pc = "Done", !.preview = TRUE]
    /\ UNCHANGED <<envVars, pubVars, report_issue, report_issue_event,
                   r2, put_log, page_out, queryVars, call, memoVars>>

NextMain ==
    \/ \E m \in RowUniverse : main.pc = "Idle" /\ LoadMetric(m)
    \/ Begin
    \/ Diagnostics
    \/ YearRange
    \/ Inputs
    \/ TopRows
    \/ AfterRows
    \/ Emerging
    \/ Preview

\* one run of the main page over a loaded metrics table
MainSpec == QueryInit /\ [][NextMain]_vars

\* ==================================================================
\* st.cache_data(ttl=3600) around the two aggregators (app.py:648, 714)
\* ==================================================================
\* ttl=3600 seconds, counted in half hours
Ttl == 2

\* the value key st.cache_data builds from every argument except thresholds
cache_key_NoThresholds(c) ==
    [c EXCEPT !.min_prev_100k = Absent, !.min_cpp_chewon = Absent]

\* the value key st.cache_data builds: the function and all its arguments
\* (no parameter name starts with an underscore, so none is left out)
cache_key(c) == c

\* an entry is served while the timer is before stored_at + ttl
Live(e) == memo_clock < e.stored_at + Ttl

Lookup(c) == {e \in memo : e.key = cache_key(c) /\ Live(e)}

\* the results the undecorated function may return for the arguments c
Undecorated(c) ==
    IF c.fn = "fetch_top_rows"
    THEN fetch_top_rows(c.start_year, c.end_year, c.age_groups[1], c.sex,
                        c.sort_key, c.limit, c.min_prev_100k,
                        c.min_cpp_chewon)
    ELSE fetch_top_rows_after_age(c.start_year, c.end_year, c.age_groups,
                        c.sex, c.sort_key, c.limit, c.min_prev_100k,
                        c.min_cpp_chewon)

\* fetch_top_rows_after_age returns [] before d1_query for an empty list
SendsQuery(c) == ~(c.fn = "fetch_top_rows_after_age" /\ c.age_groups = <<>>)

\* writing an entry also removes the entries whose time has passed
Store(c, rows) ==
    {e \in memo : Live(e) /\ e.key # cache_key(c)}
        \cup {[key |-> cache_key(c), rows |-> rows, stored_at |-> memo_clock]}

\* one call of a decorated aggregator with the arguments c
Cached(c) ==
    /\ fetch_seq < MaxCalls
    /\ fetch_seq' = fetch_seq + 1
    /\ fetch_call' = c
    /\ \/ \E e \in Lookup(c) :
            /\ fetch_rows' = e.rows
            /\ fetch_outcome' = "hit"
            /\ UNCHANGED <<memo, d1_sent>>
       \/ /\ Lookup(c) = {}
          /\ \E rows \in Undecorated(c) :
                /\ fetch_rows' = rows
                /\ memo' = Store(c, rows)
          /\ d1_sent' = IF SendsQuery(c) THEN d1_sent + 1 ELSE d1_sent
          /\ fetch_outcome' = "miss"
       \/ /\ Lookup(c) = {}
          /\ SendsQuery(c)
          /\ fetch_rows' = <<>>
          /\ d1_sent' = d1_sent + 1
          /\ fetch_outcome' = "raised"
          /\ UNCHANGED memo
    /\ UNCHANGED <<envVars, pubVars, report_issue, report_issue_event,
                   r2, put_log, page_out, metrics, main, call, memo_clock>>

\* a call of fetch_top_rows and the calls differing from it in one argument
BaseCall ==
    [fn |-> "fetch_top_rows", start_year |-> 2024, end_year |-> 2024,
     age_groups |-> <<"40_49">>, sex |-> "M", sort_key |-> "total_cost",
     limit |-> 15, min_prev_100k |-> Absent, min_cpp_chewon |-> Absent]

CachedCalls ==
    {BaseCall,
     [BaseCall EXCEPT !.start_year = 2023],
     [BaseCall EXCEPT !.end_year = 2023],
     [BaseCall EXCEPT !.age_groups = <<"50_59">>],
     [BaseCall EXCEPT !.sex = "F"],
     [BaseCall EXCEPT !.sort_key = "prevalence_per_100k"],
     [BaseCall EXCEPT !.limit = 1],
     [BaseCall EXCEPT !.min_prev_100k = Given(150)],
     [BaseCall EXCEPT !.min_cpp_chewon = Given(1000)],
     [BaseCall EXCEPT !.fn = "fetch_top_rows_after_age"],
     [BaseCall EXCEPT !.fn = "fetch_top_rows_after_age",
                      !.age_groups = <<"40_49", "50_59">>],
     [BaseCall EXCEPT !.fn = "fetch_top_rows_after_age",
                      !.age_groups = <<>>]}

CachedCall == \E c \in CachedCalls : Cached(c)

\* the rows the store gains or loses between two calls
ChangingRows ==
    {m \in RowUniverse :
        /\ m.year = 2024 /\ m.age_group = "40_49" /\ m.sex = "M"
        /\ \/ m.disease_code = "A" /\ m.total_cost = 3000
           \/ m.disease_code = "B" /\ m.total_cost = 1000}

StoreChanges(m) ==
    /\ metrics' = IF m \in metrics THEN metrics \ {m} ELSE metrics \cup {m}
    /\ UNCHANGED <<envVars, pubVars, report_issue, report_issue_event,
                   r2, put_log, page_out, fetch_call, fetch_rows, main, call,
                   memoVars>>

\* half an hour passes
MemoTick ==
    /\ memo_clock < MaxMemoClock
    /\ memo_clock' = memo_clock + 1
    /\ UNCHANGED <<envVars, pubVars, report_issue, report_issue_event,
                   r2, put_log, page_out, queryVars, main, call,
                   memo, d1_sent, fetch_seq, fetch_outcome>>

NextCache ==
    \/ CachedCall
    \/ \E m \in ChangingRows : StoreChanges(m)
    \/ MemoTick

\* the decorated aggregators called while the store changes and time passes
CacheSpec == QueryInit /\ [][NextCache]_vars

\* ==================================================================
\* Properties
\* ==================================================================
\* rows of report_issue inserted by call number a
RowsOf(a) == {i \in 1..Len(report_issue) : report_issue[i].attempt = a}

\* the instant (hours) at which row r was inserted, from its timestamp
InsertedAt(r) == r.created_at - storeTz

\* C1: when the blob upload fails, the publish attempt inserts no
\* report_issue record and raises the artifact-storage error, never the
\* audit-write error.
C1_UploadFailureWritesNoRecord ==
    \A p \in Pubs :
        pc[p] = "UploadFailed" =>
            /\ RowsOf(attempt[p]) = {}
            /\ err[p] = UploadError
            /\ err[p].label # RecordError.label
            /\ ret[p] = NoCode

C1_Witness ==
    \E p \in Pubs : pc[p] = "UploadFailed" /\ Len(report_issue) > 0

\* C2 (as claimed): when the upload succeeds and the insert fails, the
\* attempt ends with the blob it uploaded still stored under its key, no
\* report_issue record carrying its compliance code, and an error other
\* than the upload-failure error.
C2_OrphanedArtifact ==
    [][\A p \in Pubs :
        (pc[p] = "Uploaded" /\ pc'[p] = "OrphanedArtifact") =>
            /\ pdf_r2_key'[p] \in DOMAIN r2'
            /\ r2'[pdf_r2_key'[p]] = attempt'[p]
            /\ \A i \in 1..Len(report_issue') :
                    report_issue'[i].compliance_code # compliance_code'[p]
            /\ err'[p].label # UploadError.label]_vars

\* C3 (as claimed): each of the three publish steps, when it fails, raises
\* an error carrying a label of its own, so the labels of failures of
\* different steps differ.
FailedAt == {"CodeGenFailed", "UploadFailed", "OrphanedArtifact"}

C3_EachStepLabelled ==
    \A p \in Pubs :
        pc[p] \in FailedAt =>
            /\ err[p].label # None
            /\ \A q \in Pubs :
                    (pc[q] \in FailedAt /\ pc[q] # pc[p]) =>
                        err[q].label # err[p].label

\* C4 (as claimed): a publish attempt moves only along Pending ->
\* CodeGenerated -> Uploaded -> Recorded | OrphanedArtifact, or
\* CodeGenerated -> UploadFailed, and stops in no state but those three.
Started == {<<"Idle", "Pending">>} \cup {<<t, "Pending">> : t \in Terminal}

SpecEdges ==
    {<<"Pending", "CodeGenerated">>, <<"CodeGenerated", "Uploaded">>,
     <<"Uploaded", "Recorded">>, <<"Uploaded", "OrphanedArtifact">>,
     <<"CodeGenerated", "UploadFailed">>}

C4_ThreePaths ==
    [][\A p \in Pubs :
        pc'[p] # pc[p] => <<pc[p], pc'[p]>> \in SpecEdges \cup Started]_vars

\* C4 (amended): a publish attempt moves only along the three paths or
\* along Pending -> CodeGenFailed (code generation raised); the upload is
\* attempted only with a generated code, the insert only after the upload
\* stored the blob; and every started attempt eventually stops in one of
\* the four terminal states.
C4_FourPaths ==
    /\ [][\A p \in Pubs :
            /\ pc'[p] # pc[p] =>
                    <<pc[p], pc'[p]>> \in
                        SpecEdges \cup Started \cup {<<"Pending", "CodeGenFailed">>}
            /\ pc'[p] \in {"Uploaded", "UploadFailed"} =>
                    compliance_code'[p] # NoCode
            /\ pc'[p] \in {"Recorded", "OrphanedArtifact"} =>
                    \E j \in 1..Len(put_log') : put_log'[j].Body = attempt'[p]
       ]_vars
    /\ \A p \in Pubs : (pc[p] = "Pending") ~> (pc[p] \in Terminal)

C4_Witness ==
    \E p, q \in Pubs : pc[p] = "CodeGenFailed" /\ pc[q] = "Recorded"

\* C5: when publish_report returns, the returned code is the code of the
\* one report_issue record the attempt inserted, the record's pdf_r2_key
\* is the key under which the attempt's PDF bytes were put, and its
\* pdf_filename is the code followed by ".pdf".
C5_ReturnedCodeIsRecorded ==
    \A p \in Pubs :
        pc[p] = "Recorded" =>
            /\ Cardinality(RowsOf(attempt[p])) = 1
            /\ \A i \in RowsOf(attempt[p]) :
                    /\ ret[p] # NoCode
                    /\ report_issue[i].compliance_code = ret[p]
                    /\ \E j \in 1..Len(put_log) :
                            put_log[j] = [Key |-> report_issue[i].pdf_r2_key,
                                          Body |-> attempt[p]]
                    /\ report_issue[i].pdf_filename.stem = ret[p]
                    /\ report_issue[i].pdf_filename.ext = "pdf"

C5_Witness ==
    \E p \in Pubs : pc[p] = "Recorded" /\ Len(report_issue) > 1

\* the call that inserted row r ran within one KST day: it read the KST
\* clock (the date of its code) and inserted the row on the same day
WithinOneKstDay(r) ==
    DateIn(InsertedAt(r), KstOffset) = r.compliance_code.date

\* C6 (as claimed): of two publish_report calls that return, run one after
\* the other within the same KST calendar day, the later call returns the
\* strictly greater daily sequence number.
C6_SequentialCodesIncrease ==
    \A i, j \in 1..Len(report_issue) :
        (/\ i < j
         /\ WithinOneKstDay(report_issue[i])
         /\ WithinOneKstDay(report_issue[j])
         /\ report_issue[i].compliance_code.date
                = report_issue[j].compliance_code.date) =>
            SeqOf(report_issue[i].compliance_code)
                < SeqOf(report_issue[j].compliance_code)

\* C7 (as claimed): the sequence number of a generated code is 1 plus the
\* number of report_issue records inserted on the current KST day.
KstTodayRows ==
    {i \in 1..Len(report_issue) :
        DateIn(InsertedAt(report_issue[i]), KstOffset) = today_kst_date_str}

C7_SeqCountsKstDay ==
    [][\A p \in Pubs :
        (pc[p] = "Pending" /\ pc'[p] = "CodeGenerated") =>
            /\ Len(compliance_code'[p].seq_str) >= 4
            /\ SeqOf(compliance_code'[p]) = 1 + Cardinality(KstTodayRows)]_vars

\* C8: a publisher that generates its code while another publisher holds a
\* code of the same KST day that was computed from the present count and is
\* not yet inserted receives that same code; nothing reserves a code, so two
\* records can carry one compliance code.
InFlight == {"CodeGenerated", "Uploaded"}

C8_RacingPublishersShareCode ==
    [][\A p, q \in Pubs :
        (/\ p # q
         /\ pc[p] = "Pending" /\ pc'[p] = "CodeGenerated"
         /\ pc[q] \in InFlight
         /\ now_kst[q] = now_kst[p]
         /\ SeqOf(compliance_code[q]) = 1 + Cardinality(
                {i \in 1..Len(report_issue) :
                    SqlDate(report_issue[i].created_at) = today_kst_date_str})) =>
            compliance_code'[p] = compliance_code[q]]_vars

C8_Witness ==
    \E i, j \in 1..Len(report_issue) :
        /\ i # j
        /\ report_issue[i].fc_id # report_issue[j].fc_id
        /\ report_issue[i].compliance_code = report_issue[j].compliance_code
        /\ InsertedAt(report_issue[i]) = InsertedAt(report_issue[j])

\* C9: a report_issue record, once inserted, is never changed or deleted;
\* the table grows by one row only, at the successful insert of a publish
\* attempt; and report_issue_event is only appended to.
C9_ReportIssueAppendOnly ==
    [][/\ Len(report_issue') >= Len(report_issue)
       /\ \A i \in 1..Len(report_issue) : report_issue'[i] = report_issue[i]
       /\ Len(report_issue') # Len(report_issue) =>
            /\ Len(report_issue') = Len(report_issue) + 1
            /\ \E p \in Pubs :
                    /\ pc[p] = "Uploaded" /\ pc'[p] = "Recorded"
                    /\ report_issue'[Len(report_issue')].attempt = attempt[p]
                    /\ RowsOf(attempt[p]) = {}
       /\ Len(report_issue_event') >= Len(report_issue_event)
       /\ \A i \in 1..Len(report_issue_event) :
                report_issue_event'[i] = report_issue_event[i]]_vars

C9_Witness ==
    /\ Len(report_issue) > 1
    /\ Len(report_issue_event) > 0
    /\ page_out.page = "admin_dashboard"

\* ---- the aggregators' thresholds, measured on the stored rows
\* the stored rows of disease code c the last call's WHERE selects
CallScope(c) ==
    {m \in metrics :
        /\ m.disease_code = c
        /\ m.year >= fetch_call.start_year /\ m.year <= fetch_call.end_year
        /\ m.sex = fetch_call.sex
        /\ \E i \in 1..Len(fetch_call.age_groups) :
                fetch_call.age_groups[i] = m.age_group}

CodesInScope == {c \in Codes : CallScope(c) # {}}
Returned == {fetch_rows[i].disease_code : i \in 1..Len(fetch_rows)}
Called == fetch_call.fn \in {"fetch_top_rows", "fetch_top_rows_after_age"}

MeetsPrev(c, t) ==
    /\ SUM(CallScope(c), "population") > 0
    /\ SUM(CallScope(c), "patient_cnt") * PerHundredThousand
            >= t * SUM(CallScope(c), "population")
BelowPrev(c, t) ==
    /\ SUM(CallScope(c), "population") > 0
    /\ SUM(CallScope(c), "patient_cnt") * PerHundredThousand
            < t * SUM(CallScope(c), "population")
MeetsCpp(c, t) ==
    /\ SUM(CallScope(c), "patient_cnt") > 0
    /\ SUM(CallScope(c), "total_cost") >= t * SUM(CallScope(c), "patient_cnt")
BelowCpp(c, t) ==
    /\ SUM(CallScope(c), "patient_cnt") > 0
    /\ SUM(CallScope(c), "total_cost") < t * SUM(CallScope(c), "patient_cnt")

\* the threshold is a number above zero (not None, not zero, not negative)
Positive(t) == Len(t) = 1 /\ ~(t[1] <= 0)

BothActive ==
    Positive(fetch_call.min_prev_100k) /\ Positive(fetch_call.min_cpp_chewon)

\* code c is missing from the rows only because LIMIT cut it: the result is
\* full and no returned row ranks below c on the effective sort column
CutByLimit(c) ==
    LET column == IF fetch_call.sort_key \in
                        {"prevalence_per_100k", "cost_per_patient"}
                  THEN fetch_call.sort_key ELSE "total_cost"
        num(S) == IF column = "total_cost" THEN SUM(S, "total_cost")
                  ELSE IF column = "cost_per_patient"
                       THEN SUM(S, "total_cost")
                       ELSE SUM(S, "patient_cnt")
        den(S) == IF column = "total_cost" THEN 1
                  ELSE IF column = "cost_per_patient"
                       THEN SUM(S, "patient_cnt")
                       ELSE SUM(S, "population")
    IN  /\ Len(fetch_rows) = fetch_call.limit
        /\ \A r \in Returned :
              \/ den(CallScope(c)) = 0
              \/ /\ den(CallScope(r)) # 0
                 /\ num(CallScope(r)) * den(CallScope(c))
                        >= num(CallScope(c)) * den(CallScope(r))

\* C10: in a call of either aggregator with both thresholds positive, no
\* returned group is below either threshold and every group meeting both is
\* returned unless LIMIT cut it; a threshold that is None or not positive
\* removes no group.
C10_ThresholdConjunction ==
    Called =>
        /\ BothActive =>
            /\ \A c \in Returned :
                  /\ ~BelowPrev(c, fetch_call.min_prev_100k[1])
                  /\ ~BelowCpp(c, fetch_call.min_cpp_chewon[1])
            /\ \A c \in CodesInScope :
                  (/\ MeetsPrev(c, fetch_call.min_prev_100k[1])
                   /\ MeetsCpp(c, fetch_call.min_cpp_chewon[1]))
                    => (c \in Returned \/ CutByLimit(c))
        /\ ~BothActive =>
             \A c \in CodesInScope :
                (/\ Positive(fetch_call.min_prev_100k)
                        => MeetsPrev(c, fetch_call.min_prev_100k[1])
                 /\ Positive(fetch_call.min_cpp_chewon)
                        => MeetsCpp(c, fetch_call.min_cpp_chewon[1]))
                  => (c \in Returned \/ CutByLimit(c))

\* a call with both thresholds positive returned a group meeting both and
\* left out one group that fails exactly one of them
C10_Witness ==
    /\ Called /\ BothActive
    /\ \E c \in Returned :
          /\ MeetsPrev(c, fetch_call.min_prev_100k[1])
          /\ MeetsCpp(c, fetch_call.min_cpp_chewon[1])
    /\ \E c \in CodesInScope \ Returned :
          /\ BelowPrev(c, fetch_call.min_prev_100k[1])
          /\ MeetsCpp(c, fetch_call.min_cpp_chewon[1])
          /\ Len(fetch_rows) < fetch_call.limit

\* C11: every row either aggregator returns has prevalence_per_100k >= 0 and
\* cost_per_patient >= 0, and each of the two is the number 0, not NULL,
\* when its denominator sum (population, patient_cnt) is 0.
C11_ZeroDenominatorGivesZero ==
    Called =>
        \A i \in 1..Len(fetch_rows) :
            LET r == fetch_rows[i]
            IN  /\ ~r.prevalence_per_100k.null
                /\ r.prevalence_per_100k.num >= 0
                /\ ~r.cost_per_patient.null
                /\ r.cost_per_patient.num >= 0
                /\ r.population = 0 => r.prevalence_per_100k.num = 0
                /\ r.patient_cnt = 0 => r.cost_per_patient.num = 0

\* ---- the emerging-row selector
Picked == call.fn = "pick_emerging_rows" /\ call.done

\* trimmed text of the disease_code of row r (None counts as the empty str)
Trimmed(r) ==
    LET text == IF r.disease_code = Absent THEN <<>> ELSE r.disease_code[1]
        keep == {i \in 1..Len(text) : text[i] # " "}
    IN  IF keep = {} THEN <<>>
        ELSE SubSeq(text, CHOOSE i \in keep : \A j \in keep : i <= j,
                          CHOOSE i \in keep : \A j \in keep : i >= j)

\* positions of after_rows whose trimmed code is the trimmed code of no
\* row of now_rows
EmergingAt ==
    {j \in 1..Len(call.after_rows) :
        \A i \in 1..Len(call.now_rows) :
            Trimmed(call.after_rows[j]) # Trimmed(call.now_rows[i])}

\* C12: pick_emerging_rows returns the rows of after_rows at the first
\* `limit` positions whose trimmed code is no trimmed code of now_rows, in
\* after_rows' order: a subsequence of after_rows, free of every code of
\* now_rows, of length <= limit, and empty when after_rows is empty;
\* current = [A, B], future = [B, C, D], limit = 5 gives [C, D].
C12_FirstEmergingRows ==
    Picked =>
        /\ (/\ call.now_rows = <<[disease_code |-> Given(<<"A">>)],
                                 [disease_code |-> Given(<<"B">>)]>>
            /\ call.after_rows = <<[disease_code |-> Given(<<"B">>)],
                                   [disease_code |-> Given(<<"C">>)],
                                   [disease_code |-> Given(<<"D">>)]>>
            /\ call.limit = 5)
              => call.ret = <<[disease_code |-> Given(<<"C">>)],
                              [disease_code |-> Given(<<"D">>)]>>
        /\ Len(call.ret) <= call.limit
        /\ call.after_rows = <<>> => call.ret = <<>>
        /\ \A k \in 1..Len(call.ret), i \in 1..Len(call.now_rows) :
                call.ret[k].disease_code # call.now_rows[i].disease_code
        /\ \E at \in [1..Len(call.ret) -> 1..Len(call.after_rows)] :
              /\ \A k \in 1..Len(call.ret) :
                    /\ at[k] \in EmergingAt
                    /\ call.ret[k] = call.after_rows[at[k]]
                    /\ \A l \in 1..Len(call.ret) : k < l => at[k] < at[l]
                    /\ \A j \in EmergingAt :
                          j < at[k] => \E l \in 1..Len(call.ret) : at[l] = j
              /\ Len(call.ret) < call.limit =>
                    \A j \in EmergingAt : \E l \in 1..Len(call.ret) : at[l] = j

\* the selector dropped a row of after_rows whose code differs from a code
\* of now_rows only by surrounding blanks, kept the next emerging row and
\* cut a further emerging row by the limit
C12_Witness ==
    /\ Picked
    /\ Len(call.ret) = 1 /\ call.limit = 1
    /\ Cardinality(EmergingAt) > 1
    /\ \E j \in 1..Len(call.after_rows), i \in 1..Len(call.now_rows) :
          /\ j \notin EmergingAt
          /\ call.after_rows[j].disease_code # call.now_rows[i].disease_code
          /\ Trimmed(call.after_rows[j]) = Trimmed(call.now_rows[i])

\* ---- the sort key
\* the results the last call's function may return for the same arguments
\* but sort key k
SameCallSortedBy(k) ==
    IF fetch_call.fn = "fetch_top_rows"
    THEN fetch_top_rows(fetch_call.start_year, fetch_call.end_year,
                        fetch_call.age_groups[1], fetch_call.sex, k,
                        fetch_call.limit, fetch_call.min_prev_100k,
                        fetch_call.min_cpp_chewon)
    ELSE fetch_top_rows_after_age(fetch_call.start_year, fetch_call.end_year,
                        fetch_call.age_groups, fetch_call.sex, k,
                        fetch_call.limit, fetch_call.min_prev_100k,
                        fetch_call.min_cpp_chewon)

UnrecognizedKey ==
    fetch_call.sort_key \notin
        {"total_cost", "prevalence_per_100k", "cost_per_patient"}

\* C13: a call of either aggregator with a sort_key outside the three
\* recognized keys returns rows, ordered by total_cost descending, and they
\* are rows the same call with sort_key = total_cost returns.
C13_UnknownSortKeyIsTotalCost ==
    (Called /\ UnrecognizedKey) =>
        /\ fetch_rows \in SameCallSortedBy("total_cost")
        /\ \A i, j \in 1..Len(fetch_rows) :
                i < j => fetch_rows[i].total_cost >= fetch_rows[j].total_cost

\* a call with an unrecognized key returned two groups by falling cost
\* although their prevalence rises
C13_Witness ==
    /\ Called /\ UnrecognizedKey
    /\ Len(fetch_rows) = 2
    /\ fetch_rows[1].total_cost > fetch_rows[2].total_cost
    /\ ~fetch_rows[1].prevalence_per_100k.null
    /\ ~fetch_rows[2].prevalence_per_100k.null
    /\ fetch_rows[1].prevalence_per_100k.num * fetch_rows[2].prevalence_per_100k.den
         < fetch_rows[2].prevalence_per_100k.num * fetch_rows[1].prevalence_per_100k.den

\* ---- the demographic scope of fetch_top_rows_after_age
CalledAfterAge ==
    fetch_call.fn = "fetch_top_rows_after_age" /\ fetch_call.age_groups # <<>>

\* the value of column on which the last call sorts, as a fraction n / d
\* of the sums over the stored rows of code c in the call's scope
SortNum(c) ==
    IF fetch_call.sort_key = "prevalence_per_100k"
    THEN SUM(CallScope(c), "patient_cnt")
    ELSE SUM(CallScope(c), "total_cost")
SortDen(c) ==
    IF fetch_call.sort_key = "prevalence_per_100k"
    THEN SUM(CallScope(c), "population")
    ELSE IF fetch_call.sort_key = "cost_per_patient"
         THEN SUM(CallScope(c), "patient_cnt") ELSE 1

\* C14: fetch_top_rows_after_age with the list [g] returns what
\* fetch_top_rows returns for age group g with the same other arguments, and
\* with any non-empty list every returned row carries the sums over the
\* stored rows of the listed age groups together, in falling order of the
\* sort column, cut to limit.
C14_AfterAgeIsUnionScope ==
    CalledAfterAge =>
        /\ Len(fetch_call.age_groups) = 1 =>
              /\ fetch_rows \in fetch_top_rows(
                    fetch_call.start_year, fetch_call.end_year,
                    fetch_call.age_groups[1], fetch_call.sex,
                    fetch_call.sort_key, fetch_call.limit,
                    fetch_call.min_prev_100k, fetch_call.min_cpp_chewon)
              /\ fetch_top_rows(
                    fetch_call.start_year, fetch_call.end_year,
                    fetch_call.age_groups[1], fetch_call.sex,
                    fetch_call.sort_key, fetch_call.limit,
                    fetch_call.min_prev_100k, fetch_call.min_cpp_chewon)
                 = SameCallSortedBy(fetch_call.sort_key)
        /\ Len(fetch_rows) <= fetch_call.limit
        /\ \A i \in 1..Len(fetch_rows) :
              LET r == fetch_rows[i]
                  S == CallScope(r.disease_code)
              IN  /\ S # {}
                  /\ r.total_cost = SUM(S, "total_cost")
                  /\ r.patient_cnt = SUM(S, "patient_cnt")
                  /\ r.population = SUM(S, "population")
        /\ \A i, j \in 1..Len(fetch_rows) :
              LET a == fetch_rows[i].disease_code
                  b == fetch_rows[j].disease_code
              IN  i < j =>
                    \/ SortDen(b) = 0
                    \/ /\ SortDen(a) # 0
                       /\ SortNum(a) * SortDen(b) >= SortNum(b) * SortDen(a)
        /\ \A c \in CodesInScope :
              LET kept == /\ Positive(fetch_call.min_prev_100k)
                                => MeetsPrev(c, fetch_call.min_prev_100k[1])
                          /\ Positive(fetch_call.min_cpp_chewon)
                                => MeetsCpp(c, fetch_call.min_cpp_chewon[1])
              IN  /\ c \in Returned => kept
                  /\ kept => (c \in Returned \/ CutByLimit(c))

\* a call with two listed age groups returned a row summing stored rows of
\* both groups, which passes the prevalence threshold only as a sum
C14_Witness ==
    /\ CalledAfterAge
    /\ Len(fetch_call.age_groups) = 2
    /\ Positive(fetch_call.min_prev_100k)
    /\ \E i \in 1..Len(fetch_rows) :
          /\ {m.age_group : m \in CallScope(fetch_rows[i].disease_code)}
                = {"40_49", "50_59"}
          /\ \E m \in CallScope(fetch_rows[i].disease_code) :
                m.patient_cnt * PerHundredThousand
                    < fetch_call.min_prev_100k[1] * m.population

\* ---- the year range of the page's queries
\* the two year inputs of the run, smaller first
LowYear == IF main.start_input > main.end_input THEN main.end_input
           ELSE main.start_input
HighYear == IF main.start_input > main.end_input THEN main.start_input
            ELSE main.end_input

PastInputs == main.pc \in {"TopRows", "AfterRows", "Emerging", "Preview", "Done"}
PastTopRows == main.pc \in {"AfterRows", "Emerging", "Preview", "Done"}

\* C15: whatever order the two year inputs come in, the aggregate queries
\* of the run are executed with the smaller year as lower and the larger as
\* upper bound, the rows shown are a result for the scope with the years in
\* order, and inputs already in order are used as they are.
C15_YearsSwappedBeforeQuery ==
    PastInputs =>
        /\ main.start_year = LowYear /\ main.end_year = HighYear
        /\ main.start_input <= main.end_input =>
              /\ main.start_year = main.start_input
              /\ main.end_year = main.end_input
              /\ "years corrected" \notin main.shown
        /\ fetch_call # NoCall =>
              fetch_call.start_year = LowYear /\ fetch_call.end_year = HighYear
        /\ (PastTopRows /\ "fetch_top_rows" \notin main.raised) =>
              main.top_rows \in fetch_top_rows(
                    LowYear, HighYear, AGE_GROUP_MAP[main.age_band],
                    IF main.gender = "male" THEN "M" ELSE "F",
                    main.sort_key, 15, Given(main.min_prev_100k),
                    Given(main.min_cpp_manwon * 10))

\* the inputs came as 2024, 2023 and the current-band query returned a row
\* summing stored rows of both years
C15_Witness ==
    /\ PastTopRows
    /\ main.start_input > main.end_input
    /\ \E i \in 1..Len(main.top_rows) :
          {m.year : m \in {x \in metrics :
                /\ x.disease_code = main.top_rows[i].disease_code
                /\ x.age_group = AGE_GROUP_MAP[main.age_band]
                /\ x.sex = (IF main.gender = "male" THEN "M" ELSE "F")}}
            = {main.start_input, main.end_input}

\* ---- failures of the remote query executor during a run
\* C16: a remote query that raises never aborts the run: the script does
\* not stop at it, the rows of the failed query are empty and its
\* diagnostic message is shown.
C16_QueryFailureNeverAbortsRun ==
    /\ main.raised # {} => main.pc # "Crashed"
    /\ "fetch_top_rows" \in main.raised =>
          /\ main.top_rows = <<>>
          /\ "D1 stats query failed" \in main.shown
    /\ "fetch_top_rows_after_age" \in main.raised =>
          /\ main.after_rows = <<>>
          /\ "D1 later-band query failed" \in main.shown

\* ---- the unit converters
Converted(fn) == call.fn = fn /\ call.done

\* C20: for every amount x >= 0, manwon_to_chewon(chewon_to_man(x)) is x up
\* to the rounding of the medium unit to a whole number (at most half a
\* medium unit away), and for every whole m >= 0,
\* chewon_to_man(manwon_to_chewon(m)) is exactly m.
C20_MediumUnitRoundTrip ==
    /\ Converted("chewon_man_chewon") =>
          /\ 2 * (call.ret.num - call.x) <= ManFactor
          /\ 2 * (call.x - call.ret.num) <= ManFactor
    /\ Converted("manwon_chewon_man") => Eq(call.ret, Real(call.x, 1))

\* ---- the chart composer
Charted == call.fn = "build_top10_combo_chart_data_uri" /\ call.done

\* what the chart of input row k shows for each of the three metrics, from
\* the row itself; None counts as 0
AnnualDivisor ==
    IF call.end_year <= call.start_year THEN 1
    ELSE call.end_year - call.start_year + 1
Shown(x) == IF x.null THEN [num |-> 0, den |-> 1] ELSE [num |-> x.num, den |-> x.den]
AnnualCostEok(k) ==
    [num |-> Shown(call.rows[k].total_cost).num,
     den |-> Shown(call.rows[k].total_cost).den * AnnualDivisor * 100000]
Prevalence(k) == Shown(call.rows[k].prevalence_per_100k)
CostPerPatientMan(k) ==
    [num |-> Shown(call.rows[k].cost_per_patient).num,
     den |-> Shown(call.rows[k].cost_per_patient).den * 10]

\* the list s of the figure shows metric(k) for every input row k, at
\* position Len(rows) - k counted from the bottom (0-based)
Draws(s, metric(_)) ==
    /\ Len(s) = Len(call.rows)
    /\ \A k \in 1..Len(call.rows) :
          Lowest(s[(Len(call.rows) - k) + 1]) = Lowest(metric(k))

\* C17: for each of the three basis values the bar, the top axis and the
\* bottom axis show: total_cost - annualized cost, prevalence,
\* cost-per-patient; prevalence_per_100k - prevalence, annualized cost,
\* cost-per-patient; cost_per_patient - cost-per-patient, prevalence,
\* annualized cost; the three are always three different metrics.
C17_SeriesPerBasis ==
    (Charted /\ call.rows # <<>>
        /\ call.basis \in {"total_cost", "prevalence_per_100k", "cost_per_patient"})
    =>  /\ call.basis = "total_cost" =>
              /\ Draws(call.ret.bar_vals, AnnualCostEok)
              /\ Draws(call.ret.top_vals, Prevalence)
              /\ Draws(call.ret.bot_vals, CostPerPatientMan)
              /\ <<call.ret.main_unit, call.ret.top_unit, call.ret.bot_unit>>
                    = <<"eok", "/100k", "man">>
        /\ call.basis = "prevalence_per_100k" =>
              /\ Draws(call.ret.bar_vals, Prevalence)
              /\ Draws(call.ret.top_vals, AnnualCostEok)
              /\ Draws(call.ret.bot_vals, CostPerPatientMan)
              /\ <<call.ret.main_unit, call.ret.top_unit, call.ret.bot_unit>>
                    = <<"/100k", "eok", "man">>
        /\ call.basis = "cost_per_patient" =>
              /\ Draws(call.ret.bar_vals, CostPerPatientMan)
              /\ Draws(call.ret.top_vals, Prevalence)
              /\ Draws(call.ret.bot_vals, AnnualCostEok)
              /\ <<call.ret.main_unit, call.ret.top_unit, call.ret.bot_unit>>
                    = <<"man", "/100k", "eok">>
        /\ Cardinality({call.ret.main_unit, call.ret.top_unit,
                        call.ret.bot_unit}) = 3

\* a chart on the prevalence basis of rows whose three metrics all differ
C17_Witness ==
    /\ Charted /\ call.basis = "prevalence_per_100k"
    /\ Len(call.rows) = 2
    /\ \A k \in 1..2 :
          /\ ~call.rows[k].total_cost.null
          /\ ~call.rows[k].prevalence_per_100k.null
          /\ call.ret.bar_vals[k] # call.ret.top_vals[k]
          /\ call.ret.bar_vals[k] # call.ret.bot_vals[k]
          /\ ~Eq(call.ret.top_vals[k], call.ret.bot_vals[k])

\* the label the chart writes for input row k, from the row itself
LabelCode(k) == Trimmed(call.rows[k])

\* C18: for no rows the composer returns the no-chart value; for rows it
\* draws exactly one chart row per input row, in reversed order: input row
\* k (0-based) is at position len(rows) - 1 - k from the bottom, the first
\* input row is the topmost, and the three values drawn at a position are
\* those of the row labelled there.
C18_ReversedRows ==
    Charted =>
        /\ call.rows = <<>> => call.ret = NoChart
        /\ call.rows # <<>> =>
            LET n == Len(call.rows)
                at(s, k0) == s[(n - 1 - k0) + 1]
                byUnit(u, p) ==
                    IF call.ret.main_unit = u THEN call.ret.bar_vals[p]
                    ELSE IF call.ret.top_unit = u THEN call.ret.top_vals[p]
                    ELSE call.ret.bot_vals[p]
            IN  /\ call.ret.drawn
                /\ Len(call.ret.labels) = n
                /\ Len(call.ret.bar_vals) = n
                /\ Len(call.ret.top_vals) = n
                /\ Len(call.ret.bot_vals) = n
                /\ call.ret.labels[n].code = LabelCode(1)
                /\ \A k0 \in 0..(n - 1) :
                      /\ at(call.ret.labels, k0).code = LabelCode(k0 + 1)
                      /\ Lowest(byUnit("eok", (n - 1 - k0) + 1))
                            = Lowest(AnnualCostEok(k0 + 1))
                      /\ Lowest(byUnit("/100k", (n - 1 - k0) + 1))
                            = Lowest(Prevalence(k0 + 1))
                      /\ Lowest(byUnit("man", (n - 1 - k0) + 1))
                            = Lowest(CostPerPatientMan(k0 + 1))

\* a chart of three different rows
C18_Witness ==
    /\ Charted
    /\ Len(call.rows) = 3
    /\ Cardinality({call.rows[k] : k \in 1..3}) = 3
    /\ call.ret.labels[3].code = <<"A">>

\* the list of the figure written with unit u
ListWithUnit(u) ==
    IF call.ret.main_unit = u THEN call.ret.bar_vals
    ELSE IF call.ret.top_unit = u THEN call.ret.top_vals
    ELSE call.ret.bot_vals

\* C19: the annualized total cost drawn for a row is total_cost /
\* max(1, end_year - start_year + 1) / 100000 and the cost-per-patient
\* drawn is cost_per_patient / 10; the divisor is 1 whenever end_year <=
\* start_year; the row {cost 1000000, patients 500, population 100000} over
\* 2023-2024 is drawn as 5, 500 and 200.
C19_AnnualizedUnits ==
    (Charted /\ call.rows # <<>>) =>
        \A k \in 1..Len(call.rows) :
            LET p == Len(call.rows) + 1 - k
                r == call.rows[k]
                cost == IF r.total_cost.null THEN 0 ELSE r.total_cost.num
                span == call.end_year - call.start_year + 1
                divisor == IF span >= 1 THEN span ELSE 1
                drawnCost == Lowest(ListWithUnit("eok")[p])
                drawnCpp == Lowest(ListWithUnit("man")[p])
                drawnPrev == Lowest(ListWithUnit("/100k")[p])
            IN  /\ call.end_year <= call.start_year => divisor = 1
                /\ drawnCost = Lowest([num |-> cost, den |-> divisor * 100000])
                /\ ~r.cost_per_patient.null =>
                      drawnCpp = Lowest([num |-> r.cost_per_patient.num,
                                         den |-> r.cost_per_patient.den * 10])
                /\ (/\ r.total_cost = Real(1000000, 1)
                    /\ r.cost_per_patient = Real(1000000, 500)
                    /\ r.prevalence_per_100k = Real(500 * 100000, 100000)
                    /\ call.start_year = 2023 /\ call.end_year = 2024)
                      => /\ drawnCost = [num |-> 5, den |-> 1]
                         /\ drawnPrev = [num |-> 500, den |-> 1]
                         /\ drawnCpp = [num |-> 200, den |-> 1]

\* the chart of the worked example over 2023-2024
C19_Witness ==
    /\ Charted
    /\ call.start_year = 2023 /\ call.end_year = 2024
    /\ \E k \in 1..Len(call.rows) :
          /\ call.rows[k].total_cost = Real(1000000, 1)
          /\ call.rows[k].cost_per_patient = Real(1000000, 500)
          /\ Lowest(ListWithUnit("eok")[Len(call.rows) + 1 - k])
                = [num |-> 5, den |-> 1]

\* ---- the one-hour memo of the aggregators
\* the step is a call of a decorated aggregator
CallStep == fetch_seq' = fetch_seq + 1

\* entries computed for exactly the arguments of the call being made that
\* are less than one hour old
FreshFor == {e \in memo : e.key = fetch_call' /\ memo_clock < e.stored_at + Ttl}

\* C21: within the hour after a successful call a repeated call with equal
\* arguments returns the rows of the first call and sends no statement,
\* whatever the store holds by then; a call for which no such entry exists
\* (its arguments differ in some argument from every entry's, or the hour
\* has passed) never gets another call's entry but computes its own; an
\* entry never changes, and it leaves the cache only once its hour is over.
C21_MemoizedForOneHour ==
    [][/\ CallStep /\ FreshFor # {} =>
            /\ \E e \in FreshFor : fetch_rows' = e.rows
            /\ d1_sent' = d1_sent
            /\ fetch_outcome' = "hit"
            /\ memo' = memo
       /\ CallStep /\ FreshFor = {} =>
            /\ fetch_outcome' \in {"miss", "raised"}
            /\ SendsQuery(fetch_call') => d1_sent' = d1_sent + 1
            /\ fetch_outcome' = "miss" =>
                    /\ fetch_rows' \in Undecorated(fetch_call')
                    /\ [key |-> fetch_call', rows |-> fetch_rows',
                        stored_at |-> memo_clock] \in memo'
       /\ \A e \in memo \ memo' : ~(memo_clock' < e.stored_at + Ttl)
       /\ \A e \in memo, f \in memo' :
            (e.key = f.key /\ e.stored_at = f.stored_at) => e = f
       /\ \A e, f \in memo : e.key = f.key => e = f
      ]_vars

\* a repeated call was served from the memo within the hour, after time
\* passed and the store changed so that the rows are no longer a result
C21_Witness ==
    /\ fetch_outcome = "hit"
    /\ d1_sent = 1
    /\ \E e \in memo :
        /\ e.key = fetch_call
        /\ e.rows = fetch_rows
        /\ e.stored_at < memo_clock
        /\ e.rows # <<>>
    /\ fetch_rows \notin Undecorated(fetch_call)

\* ---- the event log
EventTypes == {"view", "download", "bulk_download", "admin_view"}
ActorTypes == {"fc", "admin"}

\* C22: every row a page adds to report_issue_event has an event_type among
\* view, download, bulk_download, admin_view and an actor_type among fc,
\* admin, and the pages only add rows: the rows already in the log stay as
\* they are, in place.
C22_EventRowsTypedAndAppended ==
    [][/\ Len(report_issue_event') >= Len(report_issue_event)
       /\ SubSeq(report_issue_event', 1, Len(report_issue_event))
            = report_issue_event
       /\ \A i \in (Len(report_issue_event) + 1)..Len(report_issue_event') :
            /\ report_issue_event'[i].event_type \in EventTypes
            /\ report_issue_event'[i].actor_type \in ActorTypes]_vars

\* an FC, admitted by my_reports, logged a second download
C22_Witness ==
    /\ Len(report_issue_event) = 2
    /\ report_issue_event[2].event_type = "download"
    /\ report_issue_event[2].actor_type = "fc"
    /\ page_out = [page |-> "my_reports", outcome |-> "downloaded"]

\* ---- totality of the unit converters
\* C23: each of chewon_to_eok, chewon_to_man and manwon_to_chewon, applied
\* to any number or to None, returns a number: it does not raise and does
\* not return None.
C23_ConvertersTotal ==
    (call.fn \in Converters /\ call.done) =>
        (call.raised = None /\ ~call.ret.null)

\* ---- the blob keys written by the publish attempts
\* C24: no blob key is written by put_object more than once, whatever the
\* order and the outcomes of the publish attempts, so no stored artifact is
\* overwritten by a later attempt.
C24_NoKeyWrittenTwice ==
    \A i, j \in 1..Len(put_log) :
        i # j => put_log[i].Key # put_log[j].Key

\* C25: in every upload the year and month-day segments of the blob key are
\* the year and month-day embedded in the compliance code of that attempt,
\* at any hour and in any time zone of the server.
C25_KeyDateIsCodeDate ==
    \A i \in 1..Len(put_log) :
        put_log[i].Key.date = put_log[i].Key.filename.stem.date

\* ---- the ranking metric and the bar of the chart drawn for the rows
\* the dict d1_query returns for an aggregated row (the name as one token)
AsDict(g) ==
    [disease_code |-> Given(CodeChars[g.disease_code]),
     disease_name_ko |-> Given(<<g.disease_name_ko>>),
     total_cost |-> Real(g.total_cost, 1),
     prevalence_per_100k |-> g.prevalence_per_100k,
     cost_per_patient |-> g.cost_per_patient]

\* the chart the page draws for the rows of the last call, basis = sort_key
ChartOfCall ==
    build_top10_combo_chart_data_uri(
        [i \in 1..Len(fetch_rows) |-> AsDict(fetch_rows[i])],
        fetch_call.sort_key, fetch_call.start_year, fetch_call.end_year)

\* the unit of the column the statement of the last call orders by
RankingUnit ==
    IF order_by(fetch_call.sort_key) = "total_cost" THEN "eok"
    ELSE IF order_by(fetch_call.sort_key) = "prevalence_per_100k" THEN "/100k"
    ELSE "man"

Geq(x, y) == Lowest(x).num * Lowest(y).den >= Lowest(y).num * Lowest(x).den

\* the bars read from the top of the chart never increase
BarsDescendFromTop ==
    LET bars == ChartOfCall.bar_vals
    IN  \A i, j \in 1..Len(bars) : i < j => Geq(bars[j], bars[i])

\* C26: for every sort basis, recognized or not, the chart drawn for the rows
\* an aggregator returned shows as its bar the metric the aggregator ranked
\* by, so the bars are in descending order from the top.
C26_BarIsRankingMetric ==
    (Called /\ fetch_rows # <<>>) =>
        /\ ChartOfCall.main_unit = RankingUnit
        /\ BarsDescendFromTop

\* ---- the newly emerging diseases of a page run
\* the disease codes in the rows a set of possible results holds
CodesOf(results) ==
    UNION {{rows[i].disease_code : i \in 1..Len(rows)} : rows \in results}

\* the store's top-15 ranking of the customer's current band and of the
\* later bands, for the run's years, sex, sort key and thresholds
StoreNow ==
    LET c == PageCall("fetch_top_rows", <<AGE_GROUP_MAP[main.age_band]>>)
    IN  CodesOf(fetch_top_rows(c.start_year, c.end_year, c.age_groups[1],
                    c.sex, c.sort_key, c.limit, c.min_prev_100k,
                    c.min_cpp_chewon))

StoreAfter ==
    LET c == PageCall("fetch_top_rows_after_age",
                      AFTER_AGE_GROUPS[main.age_band])
    IN  CodesOf(fetch_top_rows_after_age(c.start_year, c.end_year,
                    c.age_groups, c.sex, c.sort_key, c.limit,
                    c.min_prev_100k, c.min_cpp_chewon))

PastEmerging == main.pc \in {"Preview", "Done"}

\* C27: in every run of the main page, whether or not one of its two
\* queries failed, each disease listed as newly emerging is absent from the
\* store's current-band top-15 ranking and present in the later-band ranking
\* for the same years, sex, sort key and thresholds.
C27_EmergingAbsentFromCurrent ==
    PastEmerging =>
        \A i \in 1..Len(main.emerging_rows) :
            /\ main.emerging_rows[i].disease_code \notin StoreNow
            /\ main.emerging_rows[i].disease_code \in StoreAfter

\* ---- the records the event rows refer to
\* the number of rows in the log is i or more
Logged(i) == Len(report_issue_event) >= i

AdminToken ==
    call.token.sig_ok /\ ~call.token.expired /\ call.token.role = "admin"

\* C29: a request gets past the authentication of an admin page exactly
\* when its token has a valid signature, is not expired and carries role
\* admin; admin_dashboard and admin_detail decide alike on the same token;
\* a token without a role is taken as fc and rejected.
C29_AdminPagesAdmitAdminOnly ==
    (call.fn = "admin_auth" /\ call.dashboard # None /\ call.detail # None) =>
        /\ (call.dashboard = "admitted") <=> AdminToken
        /\ (call.detail = "admitted") <=> AdminToken
        /\ (call.dashboard = "admitted") <=> (call.detail = "admitted")
        /\ call.token.role = "absent" =>
                (call.dashboard # "admitted" /\ call.detail # "admitted")

====
